---- MODULE Spec2Model ----
(***************************************************************************)
(* Model of crates/bevy_ecs/src/storage/sparse_set.rs: SparseArray,        *)
(* SparseSet and ComponentSparseSet.                                       *)
(*                                                                         *)
(* Rust vectors are 0-indexed, TLA+ sequences 1-indexed: position p of a   *)
(* Vec is element p + 1 of the sequence that models it.  Option<T> is a    *)
(* sequence of length 0 (None) or 1 (Some(x)).                             *)
(***************************************************************************)
EXTENDS Integers, Sequences, FiniteSets, TLC

\* ------------------------------------------------------------------ bounds
NumKeys == 3
MaxVal == 2
NumRows == 2

\* SparseSet inputs
Keys == 0 .. (NumKeys - 1)
Values == 1 .. MaxVal

\* ComponentSparseSet inputs: an Entity is a row and a generation; a write
\* is the value, the change tick and the caller passed to insert
Rows == 0 .. (NumRows - 1)
Generations == {0, 1}
Entities == [row : Rows, gen : Generations]
Writes ==
    { [value |-> "A", tick |-> 1, caller |-> "a.rs:1"],
      [value |-> "B", tick |-> 2, caller |-> "b.rs:2"] }

\* ------------------------------------------------------------------ state
VARIABLES
    ss,      \* the SparseSet under test
    last,    \* the last SparseSet call: name, arguments, result, state before
    rt,      \* progress of an insert(k, v); remove(k); remove(k) sequence
    amap,    \* the plain map the same calls build: key -> Option<value>
    css,     \* the ComponentSparseSet under test
    debug,   \* whether the build has debug_assertions
    clast,   \* the last ComponentSparseSet call, with the state before it
    present, \* the rows that hold a value: inserted, not removed or cleared
    fault,   \* "none", or "panic" / "ub" once a call has failed
    target,  \* the structure this run exercises
    obs,     \* what the last read-only call returned, until the caller drops it
    crt,     \* progress of a remove(e); insert(e2) sequence on one row
    owners,  \* debug build: the identifier each present row was inserted under
    sa,      \* the SparseArray under test
    alast,   \* the last SparseArray call, with the state before it
    sets,    \* the SparseSets registry under test
    slast,   \* the last registry call, with the state before it
    rstores, \* kind -> Option<rows its store should hold>: None until registered
    wiped,   \* progress of a clear(); insert(k, v) sequence on the SparseSet
    cwiped,  \* the same sequence on the ComponentSparseSet
    ord,     \* in a run that tracks it: the order the keys were first inserted
    gens     \* in a run that tracks it: the identifier each row was inserted
             \* under, whatever the build, now and before the last call

\* usize::MAX and u32::MAX, scaled.  Every key in Keys is below UsizeMax, so
\* only a call that is handed UsizeMax itself meets the limit; EntityRow and
\* TableRow are NonMaxU32, so the rows are exactly the values below U32Max.
UsizeMax == NumKeys
U32Max == NumRows

\* every usize a SparseSetIndex can give
AllKeys == 0 .. UsizeMax

\* ------------------------------------------------------------------ Option
None == << >>
Some(x) == << x >>
IsSome(o) == Len(o) = 1
Unwrap(o) == o[1]

\* ------------------------------------------------------------- Vec helpers
VecGet(vec, p) == IF p >= 0 /\ p < Len(vec) THEN Some(vec[p + 1]) ELSE None

VecSet(vec, p, x) == [vec EXCEPT ![p + 1] = x]

\* Vec::resize_with(n, || None) when n exceeds the length
ResizeWithNone(vec, n) ==
    [i \in 1 .. n |-> IF i <= Len(vec) THEN vec[i] ELSE None]

\* Vec::swap_remove(p), defined for p < len: the last element takes place p
\* faulty variant: the order-preserving Vec::remove
SwapRemove_shift(vec, p) ==
    [i \in 1 .. (Len(vec) - 1) |-> IF i <= p THEN vec[i] ELSE vec[i + 1]]

SwapRemove(vec, p) ==
    LET n == Len(vec)
    IN  IF p = n - 1
        THEN SubSeq(vec, 1, n - 1)
        ELSE [SubSeq(vec, 1, n - 1) EXCEPT ![p + 1] = vec[n]]

\* Vec::into_boxed_slice: the elements in order, the spare capacity dropped
IntoBoxedSlice(vec) == [i \in 1 .. Len(vec) |-> vec[i]]

\* ------------------------------------------------------------ SparseArray
\* A SparseArray is its `values` vector: a sequence of Options.
SA_new == << >>

SA_contains(a, index) ==
    LET slot == VecGet(a, index)
    IN  IsSome(slot) /\ IsSome(Unwrap(slot))

SA_get(a, index) ==
    LET slot == VecGet(a, index)
    IN  IF IsSome(slot) THEN Unwrap(slot) ELSE None

\* insert grows the vector with resize_with(index + 1, || None): at
\* index = usize::MAX the addition overflows
SA_insert_overflows(a, index) == index >= Len(a) /\ index + 1 > UsizeMax

\* what is left of the vector when insert has failed on the overflow: with
\* overflow checks (a debug profile) the addition panics first; without them
\* it wraps to 0, resize_with(0, ..) truncates the vector and the indexing
\* that follows panics
SA_insert_failed(a) == IF debug THEN a ELSE << >>

\* faulty variant: the slots added below `index` are filled with the value
SA_insert_fill(a, index, value) ==
    [i \in 1 .. (IF index >= Len(a) THEN index + 1 ELSE Len(a)) |->
        IF i <= Len(a) /\ i # index + 1 THEN a[i] ELSE Some(value)]

SA_insert(a, index, value) ==
    LET grown == IF index >= Len(a) THEN ResizeWithNone(a, index + 1) ELSE a
    IN  VecSet(grown, index, Some(value))

\* get_mut(index) followed by a write through the reference; the caller
\* tests the Option first, so this is used only where SA_get is Some
SA_set(a, index, value) == VecSet(a, index, Some(value))

\* remove: Option::take on the slot when the index is in bounds
\* faulty variant: returns the value and leaves the slot occupied
SA_remove_keep(a, index) ==
    LET slot == VecGet(a, index)
    IN  IF IsSome(slot)
        THEN [arr |-> a, result |-> Unwrap(slot)]
        ELSE [arr |-> a, result |-> None]

\* faulty variant: a remove past the end grows the array up to the index
SA_remove_grow(a, index) ==
    LET slot == VecGet(a, index)
    IN  IF IsSome(slot)
        THEN [arr |-> VecSet(a, index, None), result |-> Unwrap(slot)]
        ELSE [arr |-> ResizeWithNone(a, index + 1), result |-> None]

SA_remove(a, index) ==
    LET slot == VecGet(a, index)
    IN  IF IsSome(slot)
        THEN [arr |-> VecSet(a, index, None), result |-> Unwrap(slot)]
        ELSE [arr |-> a, result |-> None]

\* clear: values.clear() leaves a vector of length 0
\* faulty variant: every slot is emptied and kept
SA_clear_keep_slots(a) == [i \in 1 .. Len(a) |-> None]

SA_clear(a) == << >>

\* get_mut: the reference is to the value get returns
SA_get_mut(a, index) ==
    LET slot == VecGet(a, index)
    IN  IF IsSome(slot) THEN Unwrap(slot) ELSE None

\* into_immutable: an ImmutableSparseArray over values.into_boxed_slice();
\* contains and get are the same macro body for both types
\* faulty variant: the immutable array starts out empty
SA_into_immutable_empty(a) == << >>

SA_into_immutable(a) == IntoBoxedSlice(a)

\* -------------------------------------------------------------- SparseSet
\* s = [dense, indices, sparse]
SS_new == [dense |-> << >>, indices |-> << >>, sparse |-> SA_new]

SS_len(s) == Len(s.dense)

SS_is_empty(s) == Len(s.dense) = 0

SS_contains(s, index) == SA_contains(s.sparse, index)

\* get: dense.get_unchecked(dense_index) is undefined behaviour out of bounds
SS_get(s, index) ==
    LET d == SA_get(s.sparse, index)
    IN  IF IsSome(d) THEN VecGet(s.dense, Unwrap(d)) ELSE None

SS_get_ub(s, index) ==
    LET d == SA_get(s.sparse, index)
    IN  IsSome(d) /\ Unwrap(d) >= Len(s.dense)

\* get_mut: the same lookup, then dense.get_unchecked_mut(dense_index)
SS_get_mut(s, index) ==
    LET d == SA_get(s.sparse, index)
    IN  IF IsSome(d) THEN VecGet(s.dense, Unwrap(d)) ELSE None

\* indices(), values(), iter(): the dense vectors in order; iter zips them
SS_indices(s) == s.indices

SS_values(s) == s.dense

SS_iter(s) ==
    [i \in 1 .. (IF Len(s.indices) <= Len(s.dense) THEN Len(s.indices)
                 ELSE Len(s.dense)) |-> << s.indices[i], s.dense[i] >>]

\* insert, key present: *dense.get_unchecked_mut(dense_index) = value
\* faulty variant: pushes a second entry for the key
SS_overwrite_append(s, dense_index, value) ==
    [s |-> [s EXCEPT !.dense = Append(s.dense, value),
                     !.indices = Append(s.indices, s.indices[dense_index + 1])],
     result |-> None, fault |-> "none", fix |-> None, calls |-> 0]

SS_overwrite(s, dense_index, value) ==
    IF dense_index >= Len(s.dense)
    THEN [s |-> s, result |-> None, fault |-> "ub", fix |-> None, calls |-> 0]
    ELSE [s |-> [s EXCEPT !.dense = VecSet(s.dense, dense_index, value)],
          result |-> None, fault |-> "none", fix |-> None, calls |-> 0]

\* NonMaxUsize::new(n): None for usize::MAX
NonMaxUsize_new(n) == IF n = UsizeMax THEN None ELSE Some(n)

\* insert, key absent: sparse.insert(index, NonMaxUsize::new(len).unwrap());
\* indices.push; dense.push.  The unwrap is evaluated before sparse.insert
\* is entered.
\* faulty variant: the position is stored without the NonMaxUsize test
SS_append_unchecked(s, index, value) ==
    [s |-> [sparse |-> SA_insert(s.sparse, index, Len(s.dense)),
            indices |-> Append(s.indices, index),
            dense |-> Append(s.dense, value)],
     result |-> None, fault |-> "none", fix |-> None, calls |-> 0]

SS_append(s, index, value) ==
    LET position == NonMaxUsize_new(Len(s.dense))
    IN  IF ~IsSome(position)
        THEN [s |-> s, result |-> None, fault |-> "panic", fix |-> None,
              calls |-> 0]
        ELSE IF SA_insert_overflows(s.sparse, index)
        THEN [s |-> [s EXCEPT !.sparse = SA_insert_failed(s.sparse)],
              result |-> None, fault |-> "panic", fix |-> None, calls |-> 0]
        ELSE [s |-> [sparse |-> SA_insert(s.sparse, index, Unwrap(position)),
                     indices |-> Append(s.indices, index),
                     dense |-> Append(s.dense, value)],
              result |-> None, fault |-> "none", fix |-> None, calls |-> 0]

SS_insert(s, index, value) ==
    LET d == SA_get(s.sparse, index)
    IN  IF IsSome(d)
        THEN SS_overwrite(s, Unwrap(d), value)
        ELSE SS_append(s, index, value)

\* get_or_insert_with: func is called (calls = 1) only when the key is absent
\* faulty variant: calls func and stores its value whether or not the key
\* is present
SS_get_or_insert_with_always(s, index, produced) ==
    LET r == SS_insert(s, index, produced)
    IN  [r EXCEPT !.result = SS_get(r.s, index), !.calls = 1]

SS_get_or_insert_with(s, index, produced) ==
    LET d == SA_get(s.sparse, index)
    IN  IF IsSome(d)
        THEN IF Unwrap(d) >= Len(s.dense)
             THEN [s |-> s, result |-> None, fault |-> "ub", fix |-> None,
                   calls |-> 0]
             ELSE [s |-> s, result |-> VecGet(s.dense, Unwrap(d)),
                   fault |-> "none", fix |-> None, calls |-> 0]
        ELSE LET r == SS_append(s, index, produced)
             IN  [r EXCEPT !.result = VecGet(r.s.dense, Len(s.dense)),
                           !.calls = 1]

\* remove: is_last = index == dense.len() - 1
\* faulty variant: every removal attempts the fix-up
IsLast_never(dense_index, len) == FALSE

\* faulty variant: no removal does the fix-up
IsLast_always(dense_index, len) == TRUE

IsLast(dense_index, len) == dense_index = len - 1

\* remove, the fix-up of the moved key's back-pointer:
\*   let swapped_index = self.indices[index].clone();
\*   *self.sparse.get_mut(swapped_index).unwrap() = dense_index;
\* faulty variant: records the old tail position
SS_fixup_wrong_slot(s, dense_index, value) ==
    [s |-> [s EXCEPT !.sparse =
                SA_set(s.sparse, s.indices[dense_index + 1], Len(s.dense))],
     result |-> Some(value), fault |-> "none",
     fix |-> Some(s.indices[dense_index + 1]), calls |-> 0]

SS_fixup(s, dense_index, value) ==
    IF dense_index >= Len(s.indices)
    THEN [s |-> s, result |-> None, fault |-> "panic", fix |-> None,
          calls |-> 0]
    ELSE LET swapped_index == s.indices[dense_index + 1]
         IN  IF ~SA_contains(s.sparse, swapped_index)
             THEN [s |-> s, result |-> None, fault |-> "panic",
                   fix |-> Some(swapped_index), calls |-> 0]
             ELSE [s |-> [s EXCEPT !.sparse =
                              SA_set(s.sparse, swapped_index, dense_index)],
                   result |-> Some(value), fault |-> "none",
                   fix |-> Some(swapped_index), calls |-> 0]

SS_remove(s, index) ==
    LET r == SA_remove(s.sparse, index)
        s1 == [s EXCEPT !.sparse = r.arr]
    IN  IF ~IsSome(r.result)
        THEN [s |-> s1, result |-> None, fault |-> "none", fix |-> None,
              calls |-> 0]
        ELSE LET di == Unwrap(r.result)
                 is_last == IsLast(di, Len(s.dense))
             IN  IF di >= Len(s.dense)
                 THEN \* dense.swap_remove(index) panics out of bounds
                      [s |-> s1, result |-> None, fault |-> "panic",
                       fix |-> None, calls |-> 0]
                 ELSE LET value == s.dense[di + 1]
                          s2 == [s1 EXCEPT !.dense = SwapRemove(s.dense, di)]
                      IN  IF di >= Len(s.indices)
                          THEN \* indices.swap_remove(index) panics
                               [s |-> s2, result |-> None, fault |-> "panic",
                                fix |-> None, calls |-> 0]
                          ELSE LET s3 == [s2 EXCEPT !.indices =
                                             SwapRemove(s.indices, di)]
                               IN  IF is_last
                                   THEN [s |-> s3, result |-> Some(value),
                                         fault |-> "none", fix |-> None,
                                         calls |-> 0]
                                   ELSE SS_fixup(s3, di, value)

\* clear: dense.clear(); indices.clear(); sparse.clear()
\* faulty variant: the back-pointer table is left as it was
SS_clear_keep_sparse(s) ==
    [s |-> [dense |-> << >>, indices |-> << >>, sparse |-> s.sparse],
     result |-> None, fault |-> "none", fix |-> None, calls |-> 0]

SS_clear(s) ==
    [s |-> [dense |-> << >>, indices |-> << >>, sparse |-> SA_clear(s.sparse)],
     result |-> None, fault |-> "none", fix |-> None, calls |-> 0]

\* into_immutable: an ImmutableSparseSet over the boxed slices of dense and
\* indices and the immutable sparse array; len, contains, get, get_mut,
\* indices, values and iter are the same macro body for both types
\* faulty variant: the back-pointer table is not carried over
SS_into_immutable_no_sparse(s) ==
    [s |-> [dense |-> IntoBoxedSlice(s.dense),
            indices |-> IntoBoxedSlice(s.indices),
            sparse |-> SA_new],
     result |-> None, fault |-> "none", fix |-> None, calls |-> 0]

SS_into_immutable(s) ==
    [s |-> [dense |-> IntoBoxedSlice(s.dense),
            indices |-> IntoBoxedSlice(s.indices),
            sparse |-> SA_into_immutable(s.sparse)],
     result |-> None, fault |-> "none", fix |-> None, calls |-> 0]

\* ----------------------------------------------------------------- Column
\* The dense column of a ComponentSparseSet: one row per stored value, with
\* the value, its added and changed ticks and the caller that last wrote it.
Column_new == << >>

Column_len(col) == Len(col)

Column_clear(col) == << >>

ComponentTicks_new(tick) == [added |-> tick, changed |-> tick]

Column_push(col, value, ticks, caller) ==
    Append(col, [data |-> value, added |-> ticks.added,
                 changed |-> ticks.changed, changed_by |-> caller])

Column_replace(col, row, value, tick, caller) ==
    [col EXCEPT ![row + 1] = [data |-> value, added |-> col[row + 1].added,
                              changed |-> tick, changed_by |-> caller]]

Column_swap_remove_unchecked(col, row) == SwapRemove(col, row)

Column_swap_remove_and_forget_unchecked(col, row) ==
    [col |-> SwapRemove(col, row), value |-> col[row + 1].data,
     added |-> col[row + 1].added, changed |-> col[row + 1].changed]

\* ----------------------------------------------------- ComponentSparseSet
\* c = [dense, entities, sparse]; dbg is cfg(debug_assertions).
\* An Entity is [row, gen]; entities holds the Entity in a debug build and
\* the EntityRow alone otherwise.
CSS_new == [dense |-> Column_new, entities |-> << >>, sparse |-> SA_new]

\* faulty variant: the generation is stored in every build
StoredEntity_full(dbg, entity) == entity

StoredEntity(dbg, entity) == IF dbg THEN entity ELSE [row |-> entity.row]

CSS_len(c) == Column_len(c.dense)

CSS_is_empty(c) == Column_len(c.dense) = 0

CSS_result(c, found, flt) ==
    [c |-> c, found |-> found, handle |-> None, dropped |-> None,
     fault |-> flt, fix |-> None]

\* #[cfg(debug_assertions)] assert_eq!(entity, self.entities[dense_index])
\* faulty variant: compares the rows alone
CSS_assert_fails_rows(c, dbg, entity, dense_index) ==
    dbg /\ (\/ dense_index >= Len(c.entities)
            \/ c.entities[dense_index + 1].row # entity.row)

CSS_assert_fails(c, dbg, entity, dense_index) ==
    dbg /\ (\/ dense_index >= Len(c.entities)
            \/ c.entities[dense_index + 1] # entity)

\* TableRow::new(NonMaxU32::new_unchecked(dense_index as u32)): the cast
\* keeps the low 32 bits; new_unchecked(u32::MAX) is undefined behaviour
TableRow_new(dense_index) == dense_index % (U32Max + 1)

TableRow_new_ub(dense_index) == dense_index % (U32Max + 1) = U32Max

CSS_contains(c, dbg, entity) ==
    LET d == SA_get(c.sparse, entity.row)
    IN  IF dbg
        THEN IF IsSome(d)
             THEN [found |-> TRUE,
                   fault |-> IF CSS_assert_fails(c, dbg, entity, Unwrap(d))
                             THEN "panic" ELSE "none"]
             ELSE [found |-> FALSE, fault |-> "none"]
        ELSE [found |-> SA_contains(c.sparse, entity.row), fault |-> "none"]

\* get_with_ticks: the row's value, ticks and caller in one lookup
CSS_get_with_ticks(c, dbg, entity) ==
    LET d == SA_get(c.sparse, entity.row)
    IN  IF ~IsSome(d)
        THEN [value |-> None, fault |-> "none"]
        ELSE IF CSS_assert_fails(c, dbg, entity, Unwrap(d))
             THEN [value |-> None, fault |-> "panic"]
             ELSE IF Unwrap(d) >= Column_len(c.dense)
                  THEN [value |-> None, fault |-> "ub"]
                  ELSE [value |-> Some(c.dense[Unwrap(d) + 1]),
                        fault |-> "none"]

\* get, get_added_tick, get_changed_tick, get_ticks: the same lookup and
\* debug assertion as get_with_ticks, then one unchecked read of the column
CSS_get(c, dbg, entity) ==
    LET r == CSS_get_with_ticks(c, dbg, entity)
    IN  [value |-> IF IsSome(r.value) THEN Some(Unwrap(r.value).data)
                   ELSE None,
         fault |-> r.fault]

CSS_get_added_tick(c, dbg, entity) ==
    LET r == CSS_get_with_ticks(c, dbg, entity)
    IN  [value |-> IF IsSome(r.value) THEN Some(Unwrap(r.value).added)
                   ELSE None,
         fault |-> r.fault]

CSS_get_changed_tick(c, dbg, entity) ==
    LET r == CSS_get_with_ticks(c, dbg, entity)
    IN  [value |-> IF IsSome(r.value) THEN Some(Unwrap(r.value).changed)
                   ELSE None,
         fault |-> r.fault]

CSS_get_ticks(c, dbg, entity) ==
    LET r == CSS_get_with_ticks(c, dbg, entity)
    IN  [value |-> IF IsSome(r.value)
                   THEN Some([added |-> Unwrap(r.value).added,
                              changed |-> Unwrap(r.value).changed])
                   ELSE None,
         fault |-> r.fault]

\* MaybeLocation::new_with_flattened(f): the location is tracked, f is run
MaybeLocation_new_with_flattened(r) == r

CSS_get_changed_by(c, dbg, entity) ==
    LET r == CSS_get_with_ticks(c, dbg, entity)
    IN  MaybeLocation_new_with_flattened(
            [value |-> IF IsSome(r.value)
                       THEN Some(Unwrap(r.value).changed_by)
                       ELSE None,
             fault |-> r.fault])

\* insert, row present: dense.replace(dense_index, value, change_tick, caller)
\* faulty variant: takes the new-row path for a present row
CSS_replace_as_push(c, dbg, entity, dense_index, value, change_tick, caller) ==
    CSS_result([c EXCEPT !.dense = Column_push(c.dense, value,
                                       ComponentTicks_new(change_tick), caller),
                         !.entities = Append(c.entities,
                                             StoredEntity(dbg, entity))],
               TRUE, "none")

\* faulty variant: the value is replaced before the identifier is asserted
CSS_replace_first(c, dbg, entity, dense_index, value, change_tick, caller) ==
    IF dense_index >= Column_len(c.dense)
    THEN CSS_result(c, TRUE, "ub")
    ELSE CSS_result([c EXCEPT !.dense = Column_replace(c.dense, dense_index,
                                            value, change_tick, caller)],
                    TRUE,
                    IF CSS_assert_fails(c, dbg, entity, dense_index)
                    THEN "panic" ELSE "none")

CSS_replace(c, dbg, entity, dense_index, value, change_tick, caller) ==
    IF CSS_assert_fails(c, dbg, entity, dense_index)
    THEN CSS_result(c, TRUE, "panic")
    ELSE IF dense_index >= Column_len(c.dense)
         THEN CSS_result(c, TRUE, "ub")
         ELSE CSS_result([c EXCEPT !.dense = Column_replace(c.dense,
                                 dense_index, value, change_tick, caller)],
                         TRUE, "none")

\* insert, row absent: push the row, record its position, push the entity
\* faulty variant: leaves the entities list as it was
CSS_push_no_entity(c, dbg, entity, value, change_tick, caller) ==
    LET dense_index == Column_len(c.dense)
    IN  CSS_result([c EXCEPT !.dense = Column_push(c.dense, value,
                                  ComponentTicks_new(change_tick), caller),
                             !.sparse = SA_insert(c.sparse, entity.row,
                                                  TableRow_new(dense_index))],
                   FALSE, "none")

CSS_push(c, dbg, entity, value, change_tick, caller) ==
    LET dense_index == Column_len(c.dense)
        c1 == [c EXCEPT !.dense = Column_push(c.dense, value,
                                      ComponentTicks_new(change_tick), caller),
                        !.sparse = SA_insert(c.sparse, entity.row,
                                             TableRow_new(dense_index))]
        pushed == [c EXCEPT !.dense = Column_push(c.dense, value,
                                          ComponentTicks_new(change_tick),
                                          caller)]
    IN  IF TableRow_new_ub(dense_index)
        THEN CSS_result(pushed, FALSE, "ub")
        ELSE IF dbg /\ Len(c.entities) # dense_index
        THEN \* assert_eq!(self.entities.len(), dense_index)
             CSS_result(c1, FALSE, "panic")
        ELSE CSS_result([c1 EXCEPT !.entities =
                            Append(c.entities, StoredEntity(dbg, entity))],
                        FALSE, "none")

\* found: whether the row was present when insert was called
CSS_insert(c, dbg, entity, value, change_tick, caller) ==
    LET d == SA_get(c.sparse, entity.row)
    IN  IF IsSome(d)
        THEN CSS_replace(c, dbg, entity, Unwrap(d), value, change_tick, caller)
        ELSE CSS_push(c, dbg, entity, value, change_tick, caller)

\* is_last = dense_index.index() == self.dense.len() - 1
\* faulty variant: no removal does the fix-up
CSS_raf_is_last_always(dense_index, len) == TRUE

CSS_raf_is_last(dense_index, len) == dense_index = len - 1

CSS_remove_is_last(dense_index, len) == dense_index = len - 1

\* the fix-up after the swap:
\*   let swapped_entity = self.entities[dense_index.index()];
\*   *self.sparse.get_mut(index).unwrap() = dense_index;
\* c is the state after both swap_removes; r carries the call's result.
CSS_fixup(c, dense_index, r) ==
    IF dense_index >= Len(c.entities)
    THEN [r EXCEPT !.c = c, !.fault = "panic"]
    ELSE LET index == c.entities[dense_index + 1].row
         IN  IF ~SA_contains(c.sparse, index)
             THEN [r EXCEPT !.c = c, !.fault = "panic", !.fix = Some(index)]
             ELSE [r EXCEPT !.c = [c EXCEPT !.sparse =
                                      SA_set(c.sparse, index, dense_index)],
                            !.fix = Some(index)]

CSS_remove_and_forget(c, dbg, entity) ==
    LET r == SA_remove(c.sparse, entity.row)
        c1 == [c EXCEPT !.sparse = r.arr]
    IN  IF ~IsSome(r.result)
        THEN CSS_result(c1, FALSE, "none")
        ELSE LET di == Unwrap(r.result)
             IN  IF CSS_assert_fails(c1, dbg, entity, di)
                 THEN CSS_result(c1, TRUE, "panic")
                 ELSE IF di >= Len(c1.entities)
                 THEN \* entities.swap_remove panics out of bounds
                      CSS_result(c1, TRUE, "panic")
                 ELSE LET c2 == [c1 EXCEPT !.entities =
                                    SwapRemove(c1.entities, di)]
                          is_last == CSS_raf_is_last(di, Column_len(c.dense))
                      IN  IF di >= Column_len(c.dense)
                          THEN CSS_result(c2, TRUE, "ub")
                          ELSE LET f == Column_swap_remove_and_forget_unchecked(
                                            c.dense, di)
                                   c3 == [c2 EXCEPT !.dense = f.col]
                                   res == [CSS_result(c3, TRUE, "none")
                                              EXCEPT !.handle = Some(f.value)]
                               IN  IF is_last THEN res
                                   ELSE CSS_fixup(c3, di, res)

CSS_remove(c, dbg, entity) ==
    LET r == SA_remove(c.sparse, entity.row)
        c1 == [c EXCEPT !.sparse = r.arr]
    IN  IF ~IsSome(r.result)
        THEN CSS_result(c1, FALSE, "none")
        ELSE LET di == Unwrap(r.result)
             IN  IF CSS_assert_fails(c1, dbg, entity, di)
                 THEN CSS_result(c1, TRUE, "panic")
                 ELSE IF di >= Len(c1.entities)
                 THEN \* entities.swap_remove panics out of bounds
                      CSS_result(c1, TRUE, "panic")
                 ELSE LET c2 == [c1 EXCEPT !.entities =
                                    SwapRemove(c1.entities, di)]
                          is_last == CSS_remove_is_last(di, Column_len(c.dense))
                      IN  IF di >= Column_len(c.dense)
                          THEN CSS_result(c2, TRUE, "ub")
                          ELSE LET c3 == [c2 EXCEPT !.dense =
                                             Column_swap_remove_unchecked(
                                                 c.dense, di)]
                                   res == [CSS_result(c3, TRUE, "none")
                                              EXCEPT !.dropped =
                                                  Some(c.dense[di + 1].data)]
                               IN  IF is_last THEN res
                                   ELSE CSS_fixup(c3, di, res)

CSS_clear(c) ==
    CSS_result([dense |-> Column_clear(c.dense), entities |-> << >>,
                sparse |-> SA_clear(c.sparse)], FALSE, "none")

\* ------------------------------------------------------------- SparseSets
\* The registry is its `sets` field: a SparseSet from ComponentId to
\* ComponentSparseSet.  Results are [s, result, fault].
Reg_new == SS_new

Reg_len(r) == SS_len(r)

Reg_is_empty(r) == SS_is_empty(r)

Reg_get(r, component_id) == SS_get(r, component_id)

Reg_get_mut(r, component_id) == SS_get_mut(r, component_id)

\* a write through the reference get_mut or get_or_insert returned
Reg_write(r, component_id, store) ==
    [r EXCEPT !.dense = VecSet(r.dense, Unwrap(SA_get(r.sparse, component_id)),
                               store)]

\* get_or_insert: insert a new store unless sets.contains(id), then
\* sets.get_mut(id).unwrap()
\* faulty variant: inserts a new store on every call
Reg_get_or_insert_always(r, component_id) ==
    LET i == SS_insert(r, component_id, CSS_new)
    IN  [s |-> i.s, result |-> SS_get_mut(i.s, component_id),
         fault |-> i.fault]

Reg_get_or_insert(r, component_id) ==
    LET i == IF ~SS_contains(r, component_id)
             THEN SS_insert(r, component_id, CSS_new)
             ELSE [s |-> r, fault |-> "none"]
        got == SS_get_mut(i.s, component_id)
    IN  IF i.fault # "none"
        THEN [s |-> i.s, result |-> None, fault |-> i.fault]
        ELSE IF ~IsSome(got)
             THEN [s |-> i.s, result |-> None, fault |-> "panic"]
             ELSE [s |-> i.s, result |-> got, fault |-> "none"]

\* clear_entities: set.clear() for each store in sets.values_mut()
\* faulty variant: clears the registry itself
Reg_clear_entities_all(r) == SS_clear(r).s

Reg_clear_entities(r) ==
    [r EXCEPT !.dense = [i \in 1 .. Len(r.dense) |-> CSS_clear(r.dense[i]).c]]

\* ------------------------------------------------------- state, continued
vars == << ss, last, rt, amap, css, debug, clast, present, fault, target,
           obs, crt, owners, sa, alast, sets, slast, rstores, wiped, cwiped,
           ord, gens >>

ssVars == << ss, last, rt, amap, wiped, ord >>
cssVars == << css, clast, present, crt, owners, cwiped, gens >>

saVars == << sa, alast >>
regVars == << sets, slast, rstores >>

\* what a SparseSet, a ComponentSparseSet and a SparseArray call leave alone
setFrame == << cssVars, saVars, regVars, obs, debug, target >>
cssFrame == << ssVars, saVars, regVars, obs, debug, target >>
saFrame == << ss, last, rt, wiped, ord, cssVars, regVars, obs, debug, target >>
regFrame == << ssVars, cssVars, saVars, obs, debug, target >>

Targets == {"SparseSet", "ComponentSparseSet", "SparseArray", "SparseSets"}

\* SparseSets inputs: two component kinds; the entities of generation 0 and
\* the first write are enough to tell the stores apart
Kinds == {1, 2}
RegEntities == {e \in Entities : e.gen = 0}
RegWrites == {w \in Writes : w.tick = 1}

\* the types the impl_sparse_set! and impl_sparse_array! bodies are for
SetTypes == {"SparseSet", "ImmutableSparseSet"}
ArrayTypes == {"SparseArray", "ImmutableSparseArray"}

NoCall ==
    [op |-> "new", key |-> 0, value |-> None, result |-> None,
     fix |-> None, calls |-> 0, pre |-> SS_new]

Call(op, key, value, r) ==
    [op |-> op, key |-> key, value |-> value, result |-> r.result,
     fix |-> r.fix, calls |-> r.calls, pre |-> ss]

RtIdle == [phase |-> 0, key |-> 0, value |-> None]

NoACall ==
    [op |-> "new", key |-> 0, value |-> None, result |-> None, pre |-> SA_new]

ACall(op, key, value, result) ==
    [op |-> op, key |-> key, value |-> value, result |-> result, pre |-> sa]

NoEntity == [row |-> 0, gen |-> 0]

NoSCall ==
    [op |-> "new", kind |-> 0, entity |-> NoEntity, result |-> None,
     was |-> FALSE, pre |-> Reg_new]

\* was: whether the kind had been registered before the call
SCall(op, kind, entity, result) ==
    [op |-> op, kind |-> kind, entity |-> entity, result |-> result,
     was |-> kind \in Kinds /\ IsSome(rstores[kind]), pre |-> sets]

NoCCall ==
    [op |-> "new", entity |-> NoEntity, write |-> None, found |-> FALSE,
     handle |-> None, dropped |-> None, fix |-> None, pre |-> CSS_new]

CCall(op, entity, write, r) ==
    [op |-> op, entity |-> entity, write |-> write, found |-> r.found,
     handle |-> r.handle, dropped |-> r.dropped, fix |-> r.fix, pre |-> css]

\* no read-only call is being looked at
NoObs == [op |-> "none", arg |-> NoEntity, returned |-> FALSE, result |-> None]

\* a call that failed returned nothing; one that returned gave an Option
Obs(op, arg, result, flt) ==
    [op |-> op, arg |-> arg, returned |-> flt = "none",
     result |-> IF flt = "none" THEN result ELSE None]

CrtIdle ==
    [phase |-> 0, old |-> NoEntity, new |-> NoEntity, swapped |-> FALSE]

\* in a debug build, a removal that found e's row starts the sequence
CrtRemove(e, r) ==
    IF debug /\ r.fault = "none" /\ r.found
    THEN [phase |-> 1, old |-> e, new |-> NoEntity, swapped |-> IsSome(r.fix)]
    ELSE CrtIdle

\* the next call, an insert on the row just vacated under another
\* generation, completes it
CrtInsert(e) ==
    IF crt.phase = 1 /\ crt.old.row = e.row /\ crt.old.gen # e.gen
    THEN [crt EXCEPT !.phase = 2, !.new = e]
    ELSE CrtIdle

\* the identifiers a debug build should have on record: those inserted on an
\* absent row and not removed or cleared since
OwnersInsert(e, r) ==
    IF debug /\ r.fault = "none" /\ e.row \notin present
    THEN owners \cup {e}
    ELSE owners

OwnersRemove(e, r) ==
    IF r.fault = "none" THEN {o \in owners : o.row # e.row} ELSE owners

WipedIdle == [phase |-> 0, held |-> {}]

\* clear starts the sequence: held is the set of keys present before it
WipedClear == [phase |-> 1, held |-> {k \in Keys : IsSome(amap[k])}]

\* the next call, an insert, completes it
WipedInsert == IF wiped.phase = 1 THEN [wiped EXCEPT !.phase = 2] ELSE WipedIdle

\* a run that does not track the identifiers, and one that does
GensOff == [on |-> FALSE, ids |-> {}, was |-> {}]

GensNew == [on |-> TRUE, ids |-> {}, was |-> {}]

GensInsert(e, r) ==
    IF ~gens.on THEN gens
    ELSE [gens EXCEPT !.was = gens.ids,
                      !.ids = IF r.fault = "none" /\ e.row \notin present
                              THEN gens.ids \cup {e} ELSE gens.ids]

GensRemove(e, r) ==
    IF ~gens.on THEN gens
    ELSE [gens EXCEPT !.was = gens.ids,
                      !.ids = IF r.fault = "none"
                              THEN {o \in gens.ids : o.row # e.row}
                              ELSE gens.ids]

GensClear == IF gens.on THEN [gens EXCEPT !.was = gens.ids, !.ids = {}] ELSE gens

\* a run that does not track the insertion order
OrdOff == [on |-> FALSE, phase |-> "clean", keys |-> << >>, gone |-> 0]

\* a new or cleared set in a run that tracks it.  phase is "clean" until a
\* remove is called, "removed" right after a first remove that took an
\* entry other than the last, and "dirty" from then on; keys is the order
\* of first insertion, in "removed" as it was before that remove; gone is
\* the key that remove took
OrdNew == [on |-> TRUE, phase |-> "clean", keys |-> << >>, gone |-> 0]

OrdDirty == [on |-> TRUE, phase |-> "dirty", keys |-> << >>, gone |-> 0]

OrdHas(k) == \E i \in DOMAIN ord.keys : ord.keys[i] = k

OrdInsert(k) ==
    IF ~ord.on THEN ord
    ELSE IF ord.phase # "clean" THEN OrdDirty
    ELSE IF OrdHas(k) THEN ord
    ELSE [ord EXCEPT !.keys = Append(ord.keys, k)]

OrdRemove(k) ==
    IF ~ord.on THEN ord
    ELSE IF ord.phase = "clean" /\ OrdHas(k) /\ ord.keys[Len(ord.keys)] # k
    THEN [ord EXCEPT !.phase = "removed", !.gone = k]
    ELSE OrdDirty

OrdClear == IF ord.on THEN OrdNew ELSE ord

CWipedIdle == [phase |-> 0, rows |-> {}, ids |-> {}]

\* rows: the rows present before the clear; ids: in a debug build, the
\* identifiers they were inserted under
CWipedClear == [phase |-> 1, rows |-> present, ids |-> owners]

CWipedInsert ==
    IF cwiped.phase = 1 THEN [cwiped EXCEPT !.phase = 2] ELSE CWipedIdle

InitVars ==
    /\ ss = SS_new
    /\ last = NoCall
    /\ rt = RtIdle
    /\ amap = [k \in Keys |-> None]
    /\ css = CSS_new
    /\ clast = NoCCall
    /\ present = {}
    /\ fault = "none"
    /\ obs = NoObs
    /\ crt = CrtIdle
    /\ owners = {}
    /\ sa = SA_new
    /\ alast = NoACall
    /\ sets = Reg_new
    /\ slast = NoSCall
    /\ rstores = [k \in Kinds |-> None]
    /\ wiped = WipedIdle
    /\ cwiped = CWipedIdle

\* the profile matters to the ComponentSparseSet alone, unless a call is
\* handed usize::MAX
Init ==
    /\ InitVars
    /\ ord = OrdOff
    /\ gens = GensOff
    /\ target \in Targets
    /\ debug \in (IF target \in {"ComponentSparseSet", "SparseSets"}
                  THEN BOOLEAN ELSE {FALSE})

InsertKey(k, v) ==
    LET r == SS_insert(ss, k, v)
    IN  /\ target = "SparseSet"
        /\ fault = "none"
        /\ ss' = r.s
        /\ fault' = r.fault
        /\ last' = Call("insert", k, Some(v), r)
        /\ rt' = [phase |-> 1, key |-> k, value |-> Some(v)]
        /\ wiped' = WipedInsert
        /\ ord' = OrdInsert(k)
        /\ amap' = IF k \in Keys THEN [amap EXCEPT ![k] = Some(v)] ELSE amap
        /\ UNCHANGED setFrame

Insert == \E k \in Keys, v \in Values : InsertKey(k, v)

\* insert with any usize as the key, usize::MAX included
InsertAny == \E k \in AllKeys, v \in Values : InsertKey(k, v)

GetOrInsertWithKey(k, v) ==
    LET r == SS_get_or_insert_with(ss, k, v)
    IN  /\ target = "SparseSet"
        /\ fault = "none"
        /\ ss' = r.s
        /\ fault' = r.fault
        /\ last' = Call("get_or_insert_with", k, Some(v), r)
        /\ rt' = RtIdle
        /\ wiped' = WipedIdle
        /\ ord' = OrdInsert(k)
        /\ amap' = IF k \in Keys /\ ~IsSome(amap[k])
                   THEN [amap EXCEPT ![k] = Some(v)]
                   ELSE amap
        /\ UNCHANGED setFrame

GetOrInsertWith == \E k \in Keys, v \in Values : GetOrInsertWithKey(k, v)

\* get_or_insert_with with any usize as the key, usize::MAX included
GetOrInsertWithAny ==
    \E k \in AllKeys, v \in Values : GetOrInsertWithKey(k, v)

Remove ==
    \E k \in Keys :
        LET r == SS_remove(ss, k)
        IN  /\ target = "SparseSet"
            /\ fault = "none"
            /\ ss' = r.s
            /\ fault' = r.fault
            /\ last' = Call("remove", k, None, r)
            /\ rt' = IF rt.phase \in {1, 2} /\ rt.key = k
                     THEN [rt EXCEPT !.phase = rt.phase + 1]
                     ELSE RtIdle
            /\ wiped' = WipedIdle
            /\ ord' = OrdRemove(k)
            /\ amap' = [amap EXCEPT ![k] = None]
            /\ UNCHANGED setFrame

Clear ==
    LET r == SS_clear(ss)
    IN  /\ target = "SparseSet"
        /\ fault = "none"
        /\ ss' = r.s
        /\ fault' = r.fault
        /\ last' = Call("clear", 0, None, r)
        /\ rt' = RtIdle
        /\ wiped' = WipedClear
        /\ ord' = OrdClear
        /\ amap' = [k \in Keys |-> None]
        /\ UNCHANGED setFrame

CInsert ==
    \E e \in Entities, w \in Writes :
        LET r == CSS_insert(css, debug, e, w.value, w.tick, w.caller)
        IN  /\ target = "ComponentSparseSet"
            /\ fault = "none"
            /\ css' = r.c
            /\ fault' = r.fault
            /\ clast' = CCall("insert", e, Some(w), r)
            /\ crt' = CrtInsert(e)
            /\ cwiped' = CWipedInsert
            /\ gens' = GensInsert(e, r)
            /\ owners' = OwnersInsert(e, r)
            /\ present' = IF r.fault = "none" THEN present \cup {e.row}
                          ELSE present
            /\ UNCHANGED cssFrame

CRemove ==
    \E e \in Entities :
        LET r == CSS_remove(css, debug, e)
        IN  /\ target = "ComponentSparseSet"
            /\ fault = "none"
            /\ css' = r.c
            /\ fault' = r.fault
            /\ clast' = CCall("remove", e, None, r)
            /\ crt' = CrtRemove(e, r)
            /\ cwiped' = CWipedIdle
            /\ gens' = GensRemove(e, r)
            /\ owners' = OwnersRemove(e, r)
            /\ present' = IF r.fault = "none" THEN present \ {e.row}
                          ELSE present
            /\ UNCHANGED cssFrame

CRemoveAndForget ==
    \E e \in Entities :
        LET r == CSS_remove_and_forget(css, debug, e)
        IN  /\ target = "ComponentSparseSet"
            /\ fault = "none"
            /\ css' = r.c
            /\ fault' = r.fault
            /\ clast' = CCall("remove_and_forget", e, None, r)
            /\ crt' = CrtRemove(e, r)
            /\ cwiped' = CWipedIdle
            /\ gens' = GensRemove(e, r)
            /\ owners' = OwnersRemove(e, r)
            /\ present' = IF r.fault = "none" THEN present \ {e.row}
                          ELSE present
            /\ UNCHANGED cssFrame

CClear ==
    LET r == CSS_clear(css)
    IN  /\ target = "ComponentSparseSet"
        /\ fault = "none"
        /\ css' = r.c
        /\ fault' = r.fault
        /\ clast' = CCall("clear", NoEntity, None, r)
        /\ crt' = CrtIdle
        /\ cwiped' = CWipedClear
        /\ gens' = GensClear
        /\ owners' = {}
        /\ present' = {}
        /\ UNCHANGED cssFrame

\* the caller remembers no earlier call
CQuiet == clast.op \in {"new", "idle"}

\* a read-only call on the ComponentSparseSet: made when no earlier call is
\* remembered, it leaves the store alone and hands its result to the caller
CObserve(op, e, r) ==
    /\ target = "ComponentSparseSet"
    /\ fault = "none"
    /\ CQuiet
    /\ obs.op = "none"
    /\ obs' = Obs(op, e, r.value, r.fault)
    /\ fault' = r.fault
    /\ UNCHANGED << ssVars, cssVars, saVars, regVars, debug, target >>

CContains ==
    \E e \in Entities :
        LET r == CSS_contains(css, debug, e)
        IN  CObserve("contains", e,
                     [value |-> Some(r.found), fault |-> r.fault])

CGet ==
    \E e \in Entities : CObserve("get", e, CSS_get(css, debug, e))

CGetWithTicks ==
    \E e \in Entities :
        CObserve("get_with_ticks", e, CSS_get_with_ticks(css, debug, e))

CGetAddedTick ==
    \E e \in Entities :
        CObserve("get_added_tick", e, CSS_get_added_tick(css, debug, e))

CGetChangedTick ==
    \E e \in Entities :
        CObserve("get_changed_tick", e, CSS_get_changed_tick(css, debug, e))

CGetTicks ==
    \E e \in Entities :
        CObserve("get_ticks", e, CSS_get_ticks(css, debug, e))

CGetChangedBy ==
    \E e \in Entities :
        CObserve("get_changed_by", e, CSS_get_changed_by(css, debug, e))

\* the caller stops remembering the last mutating call
CIdle ==
    /\ target = "ComponentSparseSet"
    /\ fault = "none"
    /\ obs.op = "none"
    /\ ~CQuiet
    /\ clast' = [NoCCall EXCEPT !.op = "idle", !.pre = css]
    /\ cwiped' = CWipedIdle
    /\ gens' = [gens EXCEPT !.was = gens.ids]
    /\ UNCHANGED << ssVars, saVars, regVars, css, present, crt, owners, obs,
                    debug, fault, target >>

\* the caller drops the result of the read-only call
Forget ==
    /\ fault = "none"
    /\ obs.op # "none"
    /\ obs' = NoObs
    /\ UNCHANGED << ssVars, cssVars, saVars, regVars, debug, fault, target >>

\* a read-only call on a SparseSet, a SparseArray or their immutable forms:
\* it leaves the structure alone and hands its result to the caller
Observe(op, arg, result, flt) ==
    /\ fault = "none"
    /\ obs.op = "none"
    /\ obs' = Obs(op, arg, result, flt)
    /\ fault' = flt
    /\ UNCHANGED << ssVars, cssVars, saVars, regVars, debug, target >>

\* the caller remembers no earlier call, or only the conversion
SetQuiet == last.op \in {"new", "idle", "into_immutable"}

ArrayQuiet == alast.op \in {"new", "idle", "into_immutable"}

\* the caller stops remembering the last mutating call
SIdle ==
    /\ target = "SparseSet"
    /\ fault = "none"
    /\ obs.op = "none"
    /\ ~SetQuiet
    /\ last' = [NoCall EXCEPT !.op = "idle", !.pre = ss]
    /\ rt' = RtIdle
    /\ wiped' = WipedIdle
    /\ UNCHANGED << ss, amap, ord, cssVars, saVars, regVars, obs, debug, fault,
                    target >>

AIdle ==
    /\ target = "SparseArray"
    /\ fault = "none"
    /\ obs.op = "none"
    /\ ~ArrayQuiet
    /\ alast' = [NoACall EXCEPT !.op = "idle", !.pre = sa]
    /\ UNCHANGED << ssVars, cssVars, regVars, sa, obs, debug, fault, target >>

SGet ==
    \E k \in Keys :
        /\ target \in SetTypes
        /\ SetQuiet
        /\ Observe("get", k, SS_get(ss, k),
                   IF SS_get_ub(ss, k) THEN "ub" ELSE "none")

SGetMut ==
    \E k \in Keys :
        /\ target \in SetTypes
        /\ SetQuiet
        /\ Observe("get_mut", k, SS_get_mut(ss, k),
                   IF SS_get_ub(ss, k) THEN "ub" ELSE "none")

SContains ==
    \E k \in Keys :
        /\ target \in SetTypes
        /\ SetQuiet
        /\ Observe("contains", k, Some(SS_contains(ss, k)), "none")

SLen ==
    /\ target \in SetTypes
    /\ SetQuiet
    /\ Observe("len", 0, Some(SS_len(ss)), "none")

SIndices ==
    /\ target \in SetTypes
    /\ SetQuiet
    /\ Observe("indices", 0, Some(SS_indices(ss)), "none")

SValues ==
    /\ target \in SetTypes
    /\ SetQuiet
    /\ Observe("values", 0, Some(SS_values(ss)), "none")

SIter ==
    /\ target \in SetTypes
    /\ SetQuiet
    /\ Observe("iter", 0, Some(SS_iter(ss)), "none")

\* into_immutable consumes the SparseSet: only the read-only calls remain
IntoImmutable ==
    LET r == SS_into_immutable(ss)
    IN  /\ target = "SparseSet"
        /\ fault = "none"
        /\ ss' = r.s
        /\ fault' = r.fault
        /\ last' = Call("into_immutable", 0, None, r)
        /\ target' = "ImmutableSparseSet"
        /\ rt' = RtIdle
        /\ wiped' = WipedIdle
        /\ UNCHANGED << amap, ord, cssVars, saVars, regVars, obs, debug >>

AInsert ==
    \E k \in Keys, v \in Values :
        /\ target = "SparseArray"
        /\ fault = "none"
        /\ sa' = SA_insert(sa, k, v)
        /\ alast' = ACall("insert", k, Some(v), None)
        /\ amap' = [amap EXCEPT ![k] = Some(v)]
        /\ UNCHANGED << saFrame, fault >>

ARemove ==
    \E k \in Keys :
        LET r == SA_remove(sa, k)
        IN  /\ target = "SparseArray"
            /\ fault = "none"
            /\ sa' = r.arr
            /\ alast' = ACall("remove", k, None, r.result)
            /\ amap' = [amap EXCEPT ![k] = None]
            /\ UNCHANGED << saFrame, fault >>

AClear ==
    /\ target = "SparseArray"
    /\ fault = "none"
    /\ sa' = SA_clear(sa)
    /\ alast' = ACall("clear", 0, None, None)
    /\ amap' = [k \in Keys |-> None]
    /\ UNCHANGED << saFrame, fault >>

AGet ==
    \E k \in Keys :
        /\ target \in ArrayTypes
        /\ ArrayQuiet
        /\ Observe("get", k, SA_get(sa, k), "none")

AGetMut ==
    \E k \in Keys :
        /\ target = "SparseArray"
        /\ ArrayQuiet
        /\ Observe("get_mut", k, SA_get_mut(sa, k), "none")

AContains ==
    \E k \in Keys :
        /\ target \in ArrayTypes
        /\ ArrayQuiet
        /\ Observe("contains", k, Some(SA_contains(sa, k)), "none")

\* into_immutable consumes the SparseArray
AIntoImmutable ==
    /\ target = "SparseArray"
    /\ fault = "none"
    /\ sa' = SA_into_immutable(sa)
    /\ alast' = ACall("into_immutable", 0, None, None)
    /\ target' = "ImmutableSparseArray"
    /\ UNCHANGED << ss, last, rt, amap, wiped, ord, cssVars, regVars, obs,
                    debug, fault >>

RGetOrInsert ==
    \E id \in Kinds :
        LET r == Reg_get_or_insert(sets, id)
        IN  /\ target = "SparseSets"
            /\ fault = "none"
            /\ sets' = r.s
            /\ fault' = r.fault
            /\ slast' = SCall("get_or_insert", id, NoEntity, r.result)
            /\ rstores' = IF IsSome(rstores[id]) THEN rstores
                          ELSE [rstores EXCEPT ![id] = Some({})]
            /\ UNCHANGED regFrame

\* get_mut(id), then insert on the store it returns, if any
RStoreInsert ==
    \E id \in Kinds, e \in RegEntities, w \in RegWrites :
        LET got == Reg_get_mut(sets, id)
            r == CSS_insert(Unwrap(got), debug, e, w.value, w.tick, w.caller)
        IN  /\ target = "SparseSets"
            /\ fault = "none"
            /\ sets' = IF IsSome(got) THEN Reg_write(sets, id, r.c) ELSE sets
            /\ fault' = IF IsSome(got) THEN r.fault ELSE "none"
            /\ slast' = SCall("insert", id, e, got)
            /\ rstores' = IF IsSome(rstores[id])
                          THEN [rstores EXCEPT ![id] =
                                   Some(Unwrap(rstores[id]) \cup {e.row})]
                          ELSE rstores
            /\ UNCHANGED regFrame

\* get_mut(id), then remove on the store it returns, if any
RStoreRemove ==
    \E id \in Kinds, e \in RegEntities :
        LET got == Reg_get_mut(sets, id)
            r == CSS_remove(Unwrap(got), debug, e)
        IN  /\ target = "SparseSets"
            /\ fault = "none"
            /\ sets' = IF IsSome(got) THEN Reg_write(sets, id, r.c) ELSE sets
            /\ fault' = IF IsSome(got) THEN r.fault ELSE "none"
            /\ slast' = SCall("remove", id, e, got)
            /\ rstores' = IF IsSome(rstores[id])
                          THEN [rstores EXCEPT ![id] =
                                   Some(Unwrap(rstores[id]) \ {e.row})]
                          ELSE rstores
            /\ UNCHANGED regFrame

RClearEntities ==
    /\ target = "SparseSets"
    /\ fault = "none"
    /\ sets' = Reg_clear_entities(sets)
    /\ slast' = SCall("clear_entities", 0, NoEntity, None)
    /\ rstores' = [k \in Kinds |->
                       IF IsSome(rstores[k]) THEN Some({}) ELSE None]
    /\ UNCHANGED << regFrame, fault >>

RGet ==
    \E id \in Kinds :
        /\ target = "SparseSets"
        /\ Observe("get", id, Reg_get(sets, id), "none")

RGetMut ==
    \E id \in Kinds :
        /\ target = "SparseSets"
        /\ Observe("get_mut", id, Reg_get_mut(sets, id), "none")

RLen ==
    /\ target = "SparseSets"
    /\ Observe("len", 0, Some(Reg_len(sets)), "none")

NextSet == Insert \/ GetOrInsertWith \/ Remove \/ Clear

NextCSS == CInsert \/ CRemove \/ CRemoveAndForget \/ CClear

Next == NextSet \/ NextCSS

\* either structure
Spec == Init /\ [][Next]_vars

\* a SparseSet alone
InitSet == Init /\ target = "SparseSet"

SpecSet == InitSet /\ [][NextSet]_vars

\* a SparseSet under insert, remove and clear alone: the calls a plain map
\* also has
NextMap == Insert \/ Remove \/ Clear

SpecMap == InitSet /\ [][NextMap]_vars

\* a ComponentSparseSet alone, in a debug or a release build
InitCSS == Init /\ target = "ComponentSparseSet"

SpecCSS == InitCSS /\ [][NextCSS]_vars

\* a ComponentSparseSet under every call, the read-only ones included
ReadCSS ==
    \/ CContains \/ CGet \/ CGetWithTicks \/ CGetAddedTick
    \/ CGetChangedTick \/ CGetTicks \/ CGetChangedBy

\* the caller looks at a call's outcome and forgets it before the next call
NextCSSRead ==
    \/ (obs.op = "none" /\ CQuiet /\ NextCSS)
    \/ ReadCSS
    \/ CIdle
    \/ Forget

SpecCSSRead == InitCSS /\ [][NextCSSRead]_vars

\* a SparseSet under every call, the read-only ones and the conversion to
\* its immutable form included
ReadSet ==
    SGet \/ SGetMut \/ SContains \/ SLen \/ SIndices \/ SValues \/ SIter

NextSetRead ==
    \/ (obs.op = "none" /\ SetQuiet /\ (NextSet \/ IntoImmutable))
    \/ ReadSet
    \/ SIdle
    \/ Forget

SpecSetRead == InitSet /\ [][NextSetRead]_vars

\* a SparseArray alone
InitArray == Init /\ target = "SparseArray"

ReadArray == AGet \/ AGetMut \/ AContains

NextArray ==
    \/ (obs.op = "none" /\ ArrayQuiet
           /\ (AInsert \/ ARemove \/ AClear \/ AIntoImmutable))
    \/ ReadArray
    \/ AIdle
    \/ Forget

SpecArray == InitArray /\ [][NextArray]_vars

\* a SparseSet or a SparseArray, up to and after the conversion
InitPlain == Init /\ target \in {"SparseSet", "SparseArray"}

NextPlain == NextSetRead \/ NextArray

SpecPlain == InitPlain /\ [][NextPlain]_vars

\* a SparseSets registry alone
InitReg == Init /\ target = "SparseSets"

NextReg ==
    \/ (obs.op = "none"
           /\ (RGetOrInsert \/ RStoreInsert \/ RStoreRemove \/ RClearEntities))
    \/ RGet \/ RGetMut \/ RLen
    \/ Forget

SpecReg == InitReg /\ [][NextReg]_vars

\* a SparseSet whose calls may be handed any usize, or a ComponentSparseSet,
\* in either profile; the caller looks at each outcome before the next call
InitOverflow ==
    /\ InitVars
    /\ ord = OrdOff
    /\ gens = GensOff
    /\ target \in {"SparseSet", "ComponentSparseSet"}
    /\ debug \in BOOLEAN

NextOverflow ==
    \/ (SetQuiet /\ (InsertAny \/ GetOrInsertWithAny \/ Remove \/ Clear))
    \/ SIdle
    \/ (CQuiet /\ NextCSS)
    \/ CIdle

SpecOverflow == InitOverflow /\ [][NextOverflow]_vars

\* any of the three structures under every call
NextAll == NextSetRead \/ NextArray \/ NextCSSRead

SpecAll == Init /\ [][NextAll]_vars

\* a SparseSet under every call, in a run that tracks the order in which the
\* keys were first inserted
InitOrder ==
    /\ InitVars
    /\ target = "SparseSet"
    /\ debug = FALSE
    /\ ord = OrdNew
    /\ gens = GensOff

SpecOrder == InitOrder /\ [][NextSetRead]_vars

\* a ComponentSparseSet of a build without debug_assertions under every
\* call, in a run that tracks the identifier each row was inserted under
InitRelease ==
    /\ InitVars
    /\ target = "ComponentSparseSet"
    /\ debug = FALSE
    /\ ord = OrdOff
    /\ gens = GensNew

SpecRelease == InitRelease /\ [][NextCSSRead]_vars

\* a SparseSet or a ComponentSparseSet whose caller looks at each outcome
\* before the next call, except that a clear may be followed at once by the
\* next call
InitClear == Init /\ target \in {"SparseSet", "ComponentSparseSet"}

NextClear ==
    \/ ((SetQuiet \/ last.op = "clear") /\ NextSet)
    \/ SIdle
    \/ ((CQuiet \/ clast.op = "clear") /\ NextCSS)
    \/ CIdle

SpecClear == InitClear /\ [][NextClear]_vars

\* ------------------------------------------------------ SparseSet claims
Positions(vec) == 0 .. (Len(vec) - 1)

\* position of `key` in the state before the last call, as an Option
PrePos == SA_get(last.pre.sparse, last.key)

\* C1: in every state reached by insert, get_or_insert_with, remove and
\* clear, dense and indices have the same length, the back-pointer of
\* indices[j] is j, every occupied back-pointer k -> j has j in range and
\* indices[j] = k, indices holds no key twice and len() is the number of
\* keys present.
C1_SparseSetInvariant ==
    target = "SparseSet" =>
        /\ fault = "none"
        /\ Len(ss.dense) = Len(ss.indices)
        /\ \A j \in Positions(ss.indices) :
               SA_get(ss.sparse, ss.indices[j + 1]) = Some(j)
        /\ \A k \in Positions(ss.sparse) :
               LET d == SA_get(ss.sparse, k)
               IN  IsSome(d) =>
                       /\ Unwrap(d) < Len(ss.indices)
                       /\ ss.indices[Unwrap(d) + 1] = k
        /\ \A i, j \in Positions(ss.indices) :
               i # j => ss.indices[i + 1] # ss.indices[j + 1]
        /\ SS_len(ss) = Cardinality({k \in Keys : SS_contains(ss, k)})

C1_Witness ==
    /\ target = "SparseSet"
    /\ last.op = "remove"
    /\ IsSome(last.fix)
    /\ Len(ss.dense) >= 2
    /\ Len(ss.sparse) > Len(ss.dense)

\* C2: under insert, remove and clear, get(k) is the value of the latest
\* insert(k, _) not followed by remove(k) or clear, and None (contains(k)
\* false) otherwise; a call on another key leaves get(k) as it was.
C2_PlainMap ==
    target = "SparseSet" =>
        /\ \A k \in Keys :
               /\ ~SS_get_ub(ss, k)
               /\ SS_get(ss, k) = amap[k]
               /\ SS_contains(ss, k) = IsSome(amap[k])
        /\ last.op \in {"insert", "remove"} =>
               \A k \in Keys \ {last.key} :
                   SS_get(ss, k) = SS_get(last.pre, k)

C2_Witness ==
    /\ target = "SparseSet"
    /\ last.op = "remove"
    /\ IsSome(last.fix)
    /\ IsSome(amap[Unwrap(last.fix)])
    /\ \E k \in Keys : ~IsSome(amap[k]) /\ k # last.key /\ k < Len(ss.sparse)

\* C3: remove(k) of a key at a position j that is not the last moves the
\* last value and key to j, points the moved key's back-pointer at j,
\* shortens both sequences by one, returns the removed value and leaves
\* every other entry where it was; the moved entry is found by its key.
C3_RemoveNonLast ==
    (/\ target = "SparseSet"
     /\ last.op = "remove"
     /\ IsSome(PrePos)
     /\ Unwrap(PrePos) < Len(last.pre.dense) - 1) =>
        LET j == Unwrap(PrePos)
            n == Len(last.pre.dense)
            tailKey == last.pre.indices[n]
            tailVal == last.pre.dense[n]
        IN  /\ fault = "none"
            /\ last.result = Some(last.pre.dense[j + 1])
            /\ Len(ss.dense) = n - 1
            /\ Len(ss.indices) = n - 1
            /\ ss.dense[j + 1] = tailVal
            /\ ss.indices[j + 1] = tailKey
            /\ SA_get(ss.sparse, tailKey) = Some(j)
            /\ SS_get(ss, tailKey) = Some(tailVal)
            /\ \A i \in Positions(ss.dense) \ {j} :
                   /\ ss.dense[i + 1] = last.pre.dense[i + 1]
                   /\ ss.indices[i + 1] = last.pre.indices[i + 1]
                   /\ SA_get(ss.sparse, ss.indices[i + 1]) = Some(i)

C3_Witness ==
    /\ target = "SparseSet"
    /\ last.op = "remove"
    /\ PrePos = Some(0)
    /\ Len(last.pre.dense) = 3
    /\ last.pre.dense[2] # last.pre.dense[3]

\* C5: after insert(k, v) get(k) is Some(v); remove(k) then returns
\* Some(v), after which get(k) is None and contains(k) false; a second
\* remove(k) returns None.
C5_RoundTrip ==
    target = "SparseSet" =>
        /\ rt.phase = 1 =>
               /\ last.op = "insert"
               /\ SS_get(ss, rt.key) = rt.value
        /\ rt.phase = 2 =>
               /\ last.op = "remove"
               /\ last.result = rt.value
               /\ SS_get(ss, rt.key) = None
               /\ ~SS_contains(ss, rt.key)
        /\ rt.phase = 3 =>
               /\ last.op = "remove"
               /\ last.result = None
               /\ SS_get(ss, rt.key) = None
               /\ ~SS_contains(ss, rt.key)
        /\ rt.phase # 0 => fault = "none"

C5_Witness ==
    /\ target = "SparseSet"
    /\ rt.phase = 3
    /\ Len(ss.dense) >= 2

\* C6: insert(k, v) of a key already present writes v at the key's dense
\* position and leaves len(), indices, the back-pointers and every other
\* value as they were.
C6_InsertExisting ==
    (/\ target = "SparseSet"
     /\ last.op = "insert"
     /\ IsSome(PrePos)) =>
        /\ fault = "none"
        /\ SS_len(ss) = SS_len(last.pre)
        /\ ss.indices = last.pre.indices
        /\ ss.sparse = last.pre.sparse
        /\ ss.dense = [last.pre.dense EXCEPT ![Unwrap(PrePos) + 1] =
                           Unwrap(last.value)]

C6_Witness ==
    /\ target = "SparseSet"
    /\ last.op = "insert"
    /\ PrePos = Some(1)
    /\ Len(last.pre.dense) = 3
    /\ last.pre.dense[2] # Unwrap(last.value)

\* --------------------------------------------- ComponentSparseSet claims
\* position of the call's row in the state before the last call
CPrePos == SA_get(clast.pre.sparse, clast.entity.row)

\* the call's identifier differs from the one recorded for its row
StaleCall ==
    /\ IsSome(CPrePos)
    /\ Unwrap(CPrePos) < Len(clast.pre.entities)
    /\ clast.pre.entities[Unwrap(CPrePos) + 1] # StoredEntity(debug, clast.entity)

\* a ComponentSparseSet seen as a SparseSet of its rows
AsSparseSet(c) ==
    [dense |-> c.dense,
     indices |-> [i \in DOMAIN c.entities |-> c.entities[i].row],
     sparse |-> c.sparse]

\* C4: a removal of the entry at the last dense position (a single entry
\* included), from a SparseSet or a ComponentSparseSet, does no back-pointer
\* fix-up: no other key's back-pointer changes, nothing at or beyond the new
\* length is read, and no unwrap or index fails.
C4_RemoveLast ==
    /\ (/\ target = "SparseSet"
        /\ last.op = "remove"
        /\ PrePos = Some(Len(last.pre.dense) - 1)) =>
           /\ fault = "none"
           /\ last.fix = None
           /\ last.result = Some(last.pre.dense[Len(last.pre.dense)])
           /\ ss.dense = SubSeq(last.pre.dense, 1, Len(last.pre.dense) - 1)
           /\ ss.indices = SubSeq(last.pre.indices, 1, Len(last.pre.dense) - 1)
           /\ \A k \in Keys \ {last.key} :
                  SA_get(ss.sparse, k) = SA_get(last.pre.sparse, k)
    /\ (/\ target = "ComponentSparseSet"
        /\ clast.op \in {"remove", "remove_and_forget"}
        /\ CPrePos = Some(Len(clast.pre.dense) - 1)) =>
           /\ clast.fix = None
           /\ fault # "none" => (debug /\ fault = "panic" /\ StaleCall)
           /\ fault = "none" =>
                  /\ css.dense =
                         SubSeq(clast.pre.dense, 1, Len(clast.pre.dense) - 1)
                  /\ css.entities =
                         SubSeq(clast.pre.entities, 1, Len(clast.pre.dense) - 1)
           /\ \A r \in Rows \ {clast.entity.row} :
                  SA_get(css.sparse, r) = SA_get(clast.pre.sparse, r)

C4_Witness ==
    /\ target = "SparseSet"
    /\ last.op = "remove"
    /\ PrePos = Some(0)
    /\ Len(last.pre.dense) = 1
    /\ Len(last.pre.sparse) = NumKeys
    /\ last.key < NumKeys - 1

\* C7: in every state between calls of insert, remove, remove_and_forget and
\* clear, entities and the dense column have the same length, a row has a
\* back-pointer exactly when it holds a value, the back-pointer is in range
\* and entities there names the row, and no two rows share a position.  The
\* only assertion that ever fails is the identity check of a debug build;
\* the length assertion of insert never does.
C7_ComponentInvariant ==
    target = "ComponentSparseSet" =>
        /\ fault = "none" =>
               /\ Len(css.entities) = Column_len(css.dense)
               /\ Len(css.sparse) <= NumRows
               /\ \A r \in Rows :
                      LET d == SA_get(css.sparse, r)
                      IN  /\ IsSome(d) <=> r \in present
                          /\ IsSome(d) =>
                                 /\ Unwrap(d) < Len(css.entities)
                                 /\ css.entities[Unwrap(d) + 1].row = r
               /\ \A r1, r2 \in present :
                      r1 # r2 => SA_get(css.sparse, r1) # SA_get(css.sparse, r2)
               /\ CSS_len(css) = Cardinality(present)
        /\ fault # "none" =>
               /\ fault = "panic"
               /\ debug
               /\ clast.op \in {"insert", "remove", "remove_and_forget"}
               /\ StaleCall

C7_Witness ==
    /\ target = "ComponentSparseSet"
    /\ debug
    /\ fault = "none"
    /\ clast.op = "insert"
    /\ ~IsSome(CPrePos)
    /\ Len(clast.pre.sparse) = NumRows
    /\ Len(clast.pre.dense) = NumRows - 1
    /\ clast.pre.entities[1].row = NumRows - 1

\* C8: an insert that returns, for a row that was absent, appends one dense
\* row with both ticks equal to the call's tick and extends the entities
\* list and the back-pointer table by that entry; for a row that was
\* present it replaces the value at the row's dense position, sets the
\* changed tick and the caller from the call, keeps the added tick, and
\* leaves the length, the entities list and the back-pointer table alone.
C8_Insert ==
    (/\ target = "ComponentSparseSet"
     /\ clast.op = "insert"
     /\ fault = "none") =>
        LET w == Unwrap(clast.write)
            n == Len(clast.pre.dense)
        IN  IF ~IsSome(CPrePos)
            THEN /\ ~clast.found
                 /\ css.dense =
                        Append(clast.pre.dense,
                               [data |-> w.value, added |-> w.tick,
                                changed |-> w.tick, changed_by |-> w.caller])
                 /\ css.entities =
                        Append(clast.pre.entities,
                               StoredEntity(debug, clast.entity))
                 /\ SA_get(css.sparse, clast.entity.row) = Some(n)
                 /\ \A r \in Rows \ {clast.entity.row} :
                        SA_get(css.sparse, r) = SA_get(clast.pre.sparse, r)
            ELSE LET j == Unwrap(CPrePos)
                 IN  /\ clast.found
                     /\ Len(css.dense) = n
                     /\ css.dense[j + 1] =
                            [data |-> w.value,
                             added |-> clast.pre.dense[j + 1].added,
                             changed |-> w.tick, changed_by |-> w.caller]
                     /\ \A i \in Positions(css.dense) \ {j} :
                            css.dense[i + 1] = clast.pre.dense[i + 1]
                     /\ css.entities = clast.pre.entities
                     /\ css.sparse = clast.pre.sparse

C8_Witness ==
    /\ target = "ComponentSparseSet"
    /\ clast.op = "insert"
    /\ fault = "none"
    /\ CPrePos = Some(0)
    /\ Len(clast.pre.dense) = 2
    /\ clast.pre.dense[1].added # Unwrap(clast.write).tick

\* C9: a row is absent or present.  A call that returns changes a row from
\* absent to present only by insert of that row, from present to absent only
\* by remove or remove_and_forget of that row or by clear, and insert of a
\* present row leaves it present.  An absent row has no back-pointer and no
\* entry in entities or the dense column: a removed entity holds no dense row.
C9_RowStates ==
    (target = "ComponentSparseSet" /\ fault = "none") =>
        LET Was(r) == SA_contains(clast.pre.sparse, r)
            Is(r) == SA_contains(css.sparse, r)
        IN  /\ \A r \in Rows :
                   /\ (~Was(r) /\ Is(r)) =>
                          (clast.op = "insert" /\ clast.entity.row = r)
                   /\ (Was(r) /\ ~Is(r)) =>
                          \/ clast.op = "clear"
                          \/ /\ clast.op \in {"remove", "remove_and_forget"}
                             /\ clast.entity.row = r
                   /\ Is(r) <=> r \in present
                   /\ ~Is(r) =>
                          /\ SA_get(css.sparse, r) = None
                          /\ \A i \in Positions(css.entities) :
                                 css.entities[i + 1].row # r
            /\ clast.op = "insert" => Is(clast.entity.row)
            /\ clast.op \in {"remove", "remove_and_forget"} =>
                   /\ ~Is(clast.entity.row)
                   /\ clast.found = Was(clast.entity.row)
            /\ clast.op = "clear" => \A r \in Rows : ~Is(r)
            /\ Column_len(css.dense) = Cardinality({r \in Rows : Is(r)})
            /\ Len(css.entities) = Cardinality({r \in Rows : Is(r)})

C9_Witness ==
    /\ target = "ComponentSparseSet"
    /\ fault = "none"
    /\ clast.op = "remove"
    /\ clast.found
    /\ IsSome(clast.fix)
    /\ clast.entity.row < Len(css.sparse)

\* C10: remove and remove_and_forget, from the same state and for the same
\* entity, leave the same back-pointer table, entities list and dense column,
\* which are those SparseSet::remove leaves for the row; remove finds the row
\* exactly when remove_and_forget returns the handle of the removed value.
C10_RemoveVariants ==
    (/\ target = "ComponentSparseSet"
     /\ clast.op \in {"remove", "remove_and_forget"}) =>
        LET a == CSS_remove(clast.pre, debug, clast.entity)
            b == CSS_remove_and_forget(clast.pre, debug, clast.entity)
            s == SS_remove(AsSparseSet(clast.pre), clast.entity.row)
        IN  /\ a.c = css
            /\ b.c = css
            /\ a.fault = fault
            /\ b.fault = fault
            /\ a.fix = b.fix
            /\ fault = "none" =>
                   /\ a.found <=> IsSome(b.handle)
                   /\ a.found =>
                          b.handle =
                              Some(clast.pre.dense[Unwrap(CPrePos) + 1].data)
                   /\ a.dropped = b.handle
                   /\ s.fault = "none"
                   /\ s.s = AsSparseSet(css)
                   /\ s.fix = a.fix
                   /\ IsSome(s.result) <=> a.found

C10_Witness ==
    /\ target = "ComponentSparseSet"
    /\ fault = "none"
    /\ clast.op = "remove_and_forget"
    /\ IsSome(clast.handle)
    /\ IsSome(clast.fix)

\* C13: get_or_insert_with(k, f) on a present key does not call f, leaves
\* the set as it was and returns the key's value; on an absent key it calls
\* f once, appends the produced value as a new tail entry for k and returns
\* it; in both cases get(k) afterwards is the value returned.
C13_GetOrInsertWith ==
    (target = "SparseSet" /\ last.op = "get_or_insert_with") =>
        /\ fault = "none"
        /\ SS_get(ss, last.key) = last.result
        /\ IF IsSome(PrePos)
           THEN /\ last.calls = 0
                /\ ss = last.pre
                /\ last.result = Some(last.pre.dense[Unwrap(PrePos) + 1])
           ELSE /\ last.calls = 1
                /\ last.result = last.value
                /\ ss.dense = Append(last.pre.dense, Unwrap(last.value))
                /\ ss.indices = Append(last.pre.indices, last.key)
                /\ SA_get(ss.sparse, last.key) = Some(Len(last.pre.dense))
                /\ \A k \in Keys \ {last.key} :
                       SA_get(ss.sparse, k) = SA_get(last.pre.sparse, k)

\* reached both ways: a present key whose value differs from the one f
\* would produce
C13_Witness ==
    /\ target = "SparseSet"
    /\ last.op = "get_or_insert_with"
    /\ PrePos = Some(1)
    /\ last.calls = 0
    /\ last.result # last.value
    /\ Len(ss.dense) = 3

\* what a read-only call returns for an absent row
Absent(op) == IF op = "contains" THEN Some(FALSE) ELSE None

\* the identifier on record for the row of `entity`, as an Option
Recorded(c, entity) ==
    LET d == SA_get(c.sparse, entity.row)
    IN  IF IsSome(d) /\ Unwrap(d) < Len(c.entities)
        THEN Some(c.entities[Unwrap(d) + 1])
        ELSE None

\* C11: in a debug build, a call that finds the entity's row occupied under
\* another identifier (insert as replacement, contains, get, get_with_ticks,
\* get_added_tick, get_changed_tick, get_ticks, get_changed_by, remove,
\* remove_and_forget) fails its assertion and returns nothing; a call whose
\* row is absent evaluates no assertion and reports absence.
C11_StaleIdentifier ==
    (target = "ComponentSparseSet" /\ debug) =>
        /\ obs.op # "none" =>
               IF IsSome(SA_get(css.sparse, obs.arg.row))
               THEN Recorded(css, obs.arg) # Some(obs.arg) =>
                        /\ fault = "panic"
                        /\ ~obs.returned
                        /\ obs.result = None
               ELSE /\ fault = "none"
                    /\ obs.returned
                    /\ obs.result = Absent(obs.op)
        /\ clast.op \in {"insert", "remove", "remove_and_forget"} =>
               IF IsSome(CPrePos)
               THEN StaleCall =>
                        /\ fault = "panic"
                        /\ clast.handle = None
                        /\ clast.dropped = None
               ELSE /\ fault = "none"
                    /\ ~clast.found
                    /\ clast.handle = None
                    /\ clast.dropped = None
                    /\ clast.op # "insert" => css = clast.pre

\* a getter called with a stale identifier while two rows are present
C11_Witness ==
    /\ target = "ComponentSparseSet"
    /\ debug
    /\ obs.op = "get_ticks"
    /\ Len(css.entities) = 2
    /\ IsSome(Recorded(css, obs.arg))
    /\ Unwrap(Recorded(css, obs.arg)).gen # obs.arg.gen
    /\ fault = "panic"

\* C12: in a debug build, when remove or remove_and_forget of e is followed
\* by insert of e2 with e's row and another generation, the insert takes the
\* new-row path without an assertion failure and e2 is the owner on record;
\* every identifier on record stays on record until its row is removed or
\* cleared, and calls made with it succeed, whichever position e held.
C12_ReuseAfterRemove ==
    (target = "ComponentSparseSet" /\ debug) =>
        /\ crt.phase = 2 =>
               /\ crt.new \in owners
               /\ obs.op = "none" => fault = "none"
               /\ clast.op = "insert" =>
                      /\ clast.entity = crt.new
                      /\ ~clast.found
                      /\ ~IsSome(CPrePos)
                      /\ Len(css.entities) = Len(clast.pre.entities) + 1
        /\ (fault = "none" \/ obs.op # "none") =>
               \A e \in owners :
                   /\ Recorded(css, e) = Some(e)
                   /\ CSS_contains(css, debug, e) =
                          [found |-> TRUE, fault |-> "none"]
                   /\ CSS_get_with_ticks(css, debug, e).fault = "none"
                   /\ IsSome(CSS_get_with_ticks(css, debug, e).value)
        /\ (obs.op # "none" /\ obs.arg \in owners) =>
               /\ fault = "none"
               /\ obs.returned
               /\ obs.result # Absent(obs.op)
        /\ (clast.op \in {"insert", "remove", "remove_and_forget"}
              /\ ~StaleCall) =>
               fault = "none"

\* e held a non-last position, its removal moved another row, and e2 is read
\* back after the insert
C12_Witness ==
    /\ target = "ComponentSparseSet"
    /\ debug
    /\ crt.phase = 2
    /\ crt.swapped
    /\ obs.op = "get"
    /\ obs.arg = crt.new
    /\ obs.returned
    /\ IsSome(obs.result)

\* -------------------------------------------- conversion and array claims
\* what the read-only call `op` of a SparseSet type returns
SetRead(op, s, k) ==
    CASE op = "get" -> SS_get(s, k)
      [] op = "get_mut" -> SS_get_mut(s, k)
      [] op = "contains" -> Some(SS_contains(s, k))
      [] op = "len" -> Some(SS_len(s))
      [] op = "indices" -> Some(SS_indices(s))
      [] op = "values" -> Some(SS_values(s))
      [] op = "iter" -> Some(SS_iter(s))

\* what the read-only call `op` of a SparseArray type returns
ArrayRead(op, a, k) ==
    CASE op = "get" -> SA_get(a, k)
      [] op = "get_mut" -> SA_get_mut(a, k)
      [] op = "contains" -> Some(SA_contains(a, k))

\* every key, and one beyond any the tables can hold
KeysAndBeyond == 0 .. NumKeys

\* C14: the ImmutableSparseSet into_immutable returns answers get, contains,
\* len, indices, values and iter as the SparseSet did just before, for keys
\* present, absent and beyond the back-pointer table; the same holds for get
\* and contains of the ImmutableSparseArray and its SparseArray.
C14_IntoImmutable ==
    /\ target = "ImmutableSparseSet" =>
           /\ last.op = "into_immutable"
           /\ fault = "none"
           /\ \A k \in KeysAndBeyond :
                  \A op \in {"get", "contains", "len", "indices", "values",
                             "iter"} :
                      SetRead(op, ss, k) = SetRead(op, last.pre, k)
           /\ obs.op # "none" =>
                  /\ obs.returned
                  /\ obs.result = SetRead(obs.op, last.pre, obs.arg)
    /\ target = "ImmutableSparseArray" =>
           /\ alast.op = "into_immutable"
           /\ fault = "none"
           /\ \A k \in KeysAndBeyond :
                  \A op \in {"get", "contains"} :
                      ArrayRead(op, sa, k) = ArrayRead(op, alast.pre, k)
           /\ obs.op # "none" =>
                  /\ obs.returned
                  /\ obs.result = ArrayRead(obs.op, alast.pre, obs.arg)

\* a frozen set whose back-pointer table has a gap at key 0 and stops short
\* of the last key, read at its present key
C14_Witness ==
    /\ target = "ImmutableSparseSet"
    /\ Len(last.pre.dense) = 1
    /\ Len(last.pre.sparse) = 2
    /\ ~SS_contains(last.pre, 0)
    /\ obs.op = "get"
    /\ IsSome(obs.result)

\* C17 as stated: after SparseArray::clear every key is absent and the
\* backing sequence has as many slots as before the call.
C17_ClearKeepsSlots ==
    (target = "SparseArray" /\ alast.op = "clear") =>
        /\ \A k \in KeysAndBeyond : ~SA_contains(sa, k)
        /\ Len(sa) = Len(alast.pre)

\* C17, amended: after SparseArray::clear every key is absent and the
\* backing sequence has no slots: its length, the slot count insert compares
\* the key against, is zero.
C17_ClearEmpties ==
    (target = "SparseArray" /\ alast.op = "clear") =>
        /\ \A k \in KeysAndBeyond :
               ~SA_contains(sa, k) /\ SA_get(sa, k) = None
        /\ Len(sa) = 0

\* a clear of an array of three slots, one of them occupied
C17_Witness ==
    /\ target = "SparseArray"
    /\ alast.op = "clear"
    /\ Len(alast.pre) = 3
    /\ \E k \in Keys : SA_contains(alast.pre, k)

\* C20: slot i of a SparseArray is occupied exactly when a value was
\* inserted at i and not removed or cleared since, and holds that value;
\* insert(k, v) on n slots leaves max(n, k + 1) slots, fills slots n .. k - 1
\* with empty, sets slot k and leaves every other slot as it was; the slot
\* count does not decrease under insert, get, get_mut or remove.
C20_ArraySlots ==
    target \in ArrayTypes =>
        /\ \A k \in Keys :
               /\ SA_get(sa, k) = amap[k]
               /\ SA_contains(sa, k) <=> IsSome(amap[k])
        /\ ~SA_contains(sa, NumKeys)
        /\ alast.op = "insert" =>
               LET n == Len(alast.pre)
                   k == alast.key
               IN  /\ Len(sa) = IF n >= k + 1 THEN n ELSE k + 1
                   /\ \A i \in n .. (k - 1) : sa[i + 1] = None
                   /\ sa[k + 1] = alast.value
                   /\ \A i \in Positions(alast.pre) \ {k} :
                          sa[i + 1] = alast.pre[i + 1]
        /\ alast.op = "remove" =>
               /\ Len(sa) = Len(alast.pre)
               /\ alast.result = SA_get(alast.pre, alast.key)
               /\ \A i \in Positions(alast.pre) \ {alast.key} :
                      sa[i + 1] = alast.pre[i + 1]
        /\ obs.op \in {"get", "get_mut", "contains"} =>
               /\ sa = alast.pre
               /\ obs.result = ArrayRead(obs.op, sa, obs.arg)

\* an insert two slots past the end of a one-slot array
C20_Witness ==
    /\ target = "SparseArray"
    /\ alast.op = "insert"
    /\ Len(alast.pre) = 1
    /\ SA_contains(alast.pre, 0)
    /\ alast.key = 2
    /\ Len(sa) = 3

\* C19: a call on a key that is unoccupied or beyond the bounds returns None
\* or false, does not fail and leaves the structure as it was: SparseArray
\* and SparseSet get, get_mut, contains and remove, ComponentSparseSet
\* contains, the getters, remove and remove_and_forget.
C19_AbsentKey ==
    /\ target \in ArrayTypes =>
           /\ (alast.op = "remove" /\ ~SA_contains(alast.pre, alast.key)) =>
                  /\ alast.result = None
                  /\ sa = alast.pre
                  /\ fault = "none"
           /\ (obs.op # "none" /\ ~SA_contains(sa, obs.arg)) =>
                  /\ obs.returned
                  /\ obs.result = Absent(obs.op)
                  /\ sa = alast.pre
                  /\ fault = "none"
    /\ target \in SetTypes =>
           /\ (last.op = "remove" /\ ~SS_contains(last.pre, last.key)) =>
                  /\ last.result = None
                  /\ ss = last.pre
                  /\ fault = "none"
           /\ (obs.op \in {"get", "get_mut", "contains"}
                 /\ ~SS_contains(ss, obs.arg)) =>
                  /\ obs.returned
                  /\ obs.result = Absent(obs.op)
                  /\ ss = last.pre
                  /\ fault = "none"
    /\ target = "ComponentSparseSet" =>
           /\ (clast.op \in {"remove", "remove_and_forget"}
                 /\ ~SA_contains(clast.pre.sparse, clast.entity.row)) =>
                  /\ ~clast.found
                  /\ clast.handle = None
                  /\ clast.dropped = None
                  /\ css = clast.pre
                  /\ fault = "none"
           /\ (obs.op # "none" /\ ~SA_contains(css.sparse, obs.arg.row)) =>
                  /\ obs.returned
                  /\ obs.result = Absent(obs.op)
                  /\ css = clast.pre
                  /\ fault = "none"

\* a remove past the end of a two-slot array
C19_Witness ==
    /\ target = "SparseArray"
    /\ alast.op = "remove"
    /\ Len(alast.pre) = 2
    /\ SA_contains(alast.pre, 1)
    /\ alast.key = 2
    /\ alast.result = None

\* ------------------------------------------------------- SparseSets claims
\* the rows a store holds, read through contains
StoreRows(store) ==
    {e.row : e \in {x \in RegEntities : CSS_contains(store, debug, x).found}}

\* the kinds for which get returns a store
KindsOf(r) == {id \in Kinds : IsSome(Reg_get(r, id))}

\* C15: get_or_insert creates a store only for a kind that has none: the
\* first call for a kind adds one to len() and yields an empty store, a later
\* call returns the existing store as it is and leaves the registry as it
\* was; inserting into or removing from one kind's store leaves every other
\* kind's store and len() as they were; each registered kind's store is what
\* get and get_mut return, whatever the order of registration.
C15_GetOrInsert ==
    target = "SparseSets" =>
        /\ fault = "none"
        /\ \A id \in Kinds :
               /\ IsSome(Reg_get(sets, id)) <=> IsSome(rstores[id])
               /\ Reg_get_mut(sets, id) = Reg_get(sets, id)
               /\ IsSome(rstores[id]) =>
                      /\ StoreRows(Unwrap(Reg_get(sets, id))) =
                             Unwrap(rstores[id])
                      /\ CSS_len(Unwrap(Reg_get(sets, id))) =
                             Cardinality(Unwrap(rstores[id]))
        /\ Reg_len(sets) = Cardinality({id \in Kinds : IsSome(rstores[id])})
        /\ slast.op = "get_or_insert" =>
               /\ slast.result = Reg_get(sets, slast.kind)
               /\ IsSome(slast.result)
               /\ \A id \in Kinds \ {slast.kind} :
                      Reg_get(sets, id) = Reg_get(slast.pre, id)
               /\ IF slast.was
                  THEN /\ sets = slast.pre
                       /\ slast.result = Reg_get(slast.pre, slast.kind)
                  ELSE /\ Reg_len(sets) = Reg_len(slast.pre) + 1
                       /\ CSS_is_empty(Unwrap(slast.result))
                       /\ Unwrap(slast.result) = CSS_new
        /\ slast.op \in {"insert", "remove"} =>
               /\ Reg_len(sets) = Reg_len(slast.pre)
               /\ sets.indices = slast.pre.indices
               /\ \A id \in Kinds \ {slast.kind} :
                      Reg_get(sets, id) = Reg_get(slast.pre, id)
        /\ obs.op \in {"get", "get_mut"} =>
               /\ obs.result = Reg_get(sets, obs.arg)
               /\ IsSome(obs.result) <=> IsSome(rstores[obs.arg])

\* kind 2 was registered before kind 1, both stores hold entities, and
\* get_or_insert is called again for kind 2
C15_Witness ==
    /\ target = "SparseSets"
    /\ sets.indices = << 2, 1 >>
    /\ slast.op = "get_or_insert"
    /\ slast.kind = 2
    /\ slast.was
    /\ CSS_len(Unwrap(slast.result)) = 2
    /\ CSS_len(Unwrap(Reg_get(sets, 1))) = 1

\* C16: clear_entities empties every store and leaves the registry's mapping
\* alone: len() and the kinds for which get returns a store are as before,
\* every store has length 0 and holds no entity, and get_or_insert for a kind
\* that has a store creates none.
C16_ClearEntities ==
    target = "SparseSets" =>
        /\ slast.op = "clear_entities" =>
               /\ fault = "none"
               /\ Reg_len(sets) = Reg_len(slast.pre)
               /\ KindsOf(sets) = KindsOf(slast.pre)
               /\ sets.indices = slast.pre.indices
               /\ sets.sparse = slast.pre.sparse
               /\ \A id \in KindsOf(sets) :
                      LET store == Unwrap(Reg_get(sets, id))
                      IN  /\ CSS_len(store) = 0
                          /\ CSS_is_empty(store)
                          /\ \A e \in Entities :
                                 CSS_contains(store, debug, e) =
                                     [found |-> FALSE, fault |-> "none"]
        /\ (slast.op = "get_or_insert" /\ slast.kind \in KindsOf(slast.pre)) =>
               /\ sets = slast.pre
               /\ Reg_len(sets) = Reg_len(slast.pre)

\* a clear_entities on two registered kinds whose stores both hold entities
C16_Witness ==
    /\ target = "SparseSets"
    /\ slast.op = "clear_entities"
    /\ Reg_len(slast.pre) = 2
    /\ \A id \in Kinds : CSS_len(Unwrap(Reg_get(slast.pre, id))) > 0

\* ---------------------------------------------------------- overflow claim
\* the positions a back-pointer table holds
Pointers(sparse) ==
    {Unwrap(sparse[i]) : i \in {j \in DOMAIN sparse : IsSome(sparse[j])}}

C21_Clear ==
    /\ (target = "SparseSet" /\ last.op = "clear") =>
           /\ fault = "none"
           /\ SS_len(ss) = 0
           /\ SS_is_empty(ss)
           /\ \A k \in Keys :
                  /\ ~SS_contains(ss, k)
                  /\ ~SS_get_ub(ss, k)
                  /\ SS_get(ss, k) = None
           /\ \A k \in Positions(ss.sparse) : ~IsSome(SA_get(ss.sparse, k))
           /\ ss = SS_new
           /\ C1_SparseSetInvariant
    /\ (target = "SparseSet" /\ wiped.phase = 2) =>
           /\ last.op = "insert"
           /\ fault = "none"
           /\ ss.dense = << Unwrap(last.value) >>
           /\ ss.indices = << last.key >>
           /\ SA_get(ss.sparse, last.key) = Some(0)
           /\ \A k \in Keys \ {last.key} : ~SS_contains(ss, k)
           /\ ss = SS_insert(SS_new, last.key, Unwrap(last.value)).s
           /\ C1_SparseSetInvariant
    /\ (target = "ComponentSparseSet" /\ clast.op = "clear") =>
           /\ fault = "none"
           /\ CSS_len(css) = 0
           /\ CSS_is_empty(css)
           /\ \A e \in Entities :
                  /\ CSS_contains(css, debug, e) =
                         [found |-> FALSE, fault |-> "none"]
                  /\ CSS_get(css, debug, e) = [value |-> None, fault |-> "none"]
           /\ \A r \in Positions(css.sparse) : ~IsSome(SA_get(css.sparse, r))
           /\ css.entities = << >>
           /\ css = CSS_new
           /\ C7_ComponentInvariant
    /\ (target = "ComponentSparseSet" /\ cwiped.phase = 2) =>
           LET w == Unwrap(clast.write)
           IN  /\ clast.op = "insert"
               /\ fault = "none"
               /\ ~clast.found
               /\ Column_len(css.dense) = 1
               /\ css.dense[1].data = w.value
               /\ css.entities = << StoredEntity(debug, clast.entity) >>
               /\ SA_get(css.sparse, clast.entity.row) = Some(0)
               /\ \A r \in Rows \ {clast.entity.row} :
                      ~SA_contains(css.sparse, r)
               /\ css = CSS_insert(CSS_new, debug, clast.entity, w.value,
                                   w.tick, w.caller).c
               /\ C7_ComponentInvariant

\* a debug build: every row held a value, the store was cleared, and the next
\* insert names a row under a generation other than the one it had
C21_Witness ==
    /\ target = "ComponentSparseSet"
    /\ debug
    /\ cwiped.phase = 2
    /\ cwiped.rows = Rows
    /\ clast.entity \notin cwiped.ids
    /\ fault = "none"

\* the same for the SparseSet: the key inserted was present before the clear
C21_WitnessSet ==
    /\ target = "SparseSet"
    /\ wiped.phase = 2
    /\ Cardinality(wiped.held) >= 2
    /\ last.key \in wiped.held

\* ---------------------------------------------------- iteration order claim
\* the order the claim gives: the insertion order, after the one removal
\* with the former tail in the removed entry's place
TailMoved(keys, gone) ==
    [i \in 1 .. (Len(keys) - 1) |->
        IF keys[i] = gone THEN keys[Len(keys)] ELSE keys[i]]

OrdExpected ==
    IF ord.phase = "clean" THEN ord.keys ELSE TailMoved(ord.keys, ord.gone)

\* C22: while no remove has been called since construction or the last
\* clear, indices(), values() and iter() yield the entries in the order in
\* which their keys were first inserted, an overwrite not moving a key;
\* after a removal of an entry other than the last, the order is the
\* insertion order with the former tail entry in the removed entry's place.
C22_IterationOrder ==
    (/\ ord.on
     /\ ord.phase \in {"clean", "removed"}
     /\ obs.op \in {"indices", "values", "iter"}) =>
        /\ obs.returned
        /\ obs.op = "indices" => obs.result = Some(OrdExpected)
        /\ obs.op = "values" =>
               obs.result = Some([i \in DOMAIN OrdExpected |->
                                     Unwrap(amap[OrdExpected[i]])])
        /\ obs.op = "iter" =>
               obs.result = Some([i \in DOMAIN OrdExpected |->
                                     << OrdExpected[i],
                                        Unwrap(amap[OrdExpected[i]]) >>])

\* iter() after the first of a full set's keys was removed: the last key
\* inserted comes first
C22_Witness ==
    /\ ord.on
    /\ ord.phase = "removed"
    /\ Len(ord.keys) = NumKeys
    /\ ord.gone = ord.keys[1]
    /\ obs.op = "iter"
    /\ obs.returned
    /\ Unwrap(obs.result)[1][1] = ord.keys[NumKeys]

\* values() of a set never removed from, after an overwrite of its first key
C22_WitnessClean ==
    /\ ord.on
    /\ ord.phase = "clean"
    /\ Len(ord.keys) = NumKeys
    /\ obs.op = "values"
    /\ last.op = "idle"
    /\ ord.keys[1] > ord.keys[2]
    /\ Unwrap(amap[ord.keys[1]]) # Unwrap(amap[ord.keys[2]])

\* ---------------------------------------------------- release build claim
\* identifiers of one row and different generations
SameRow(e1, e2) == e1.row = e2.row /\ e1.gen # e2.gen

\* the identifier is not the one its row was inserted under
StaleIn(e, ids) == \E o \in ids : SameRow(e, o)

OwnerIn(e, ids) == CHOOSE o \in ids : o.row = e.row

\* the states a call is made from: the caller holds no earlier outcome
CallState == CQuiet /\ obs.op = "none"

\* C23: in a build without debug_assertions the result and the effect of
\* every ComponentSparseSet operation depend on the row of the identifier
\* alone: for two identifiers of one row and different generations, from
\* the same state, contains and the getters return the same and insert,
\* remove and remove_and_forget give the same next state; a call with a
\* stale identifier on an occupied row reads, replaces or removes the
\* newer owner's value and nothing fails.
C23_RowOnly ==
    (target = "ComponentSparseSet" /\ ~debug) =>
        /\ fault = "none"
        /\ CallState =>
           \A e1, e2 \in Entities :
               (SameRow(e1, e2) /\ e1.gen < e2.gen) =>
                   /\ CSS_contains(css, debug, e1) = CSS_contains(css, debug, e2)
                   /\ CSS_get(css, debug, e1) = CSS_get(css, debug, e2)
                   /\ CSS_get_with_ticks(css, debug, e1) =
                          CSS_get_with_ticks(css, debug, e2)
                   /\ CSS_get_added_tick(css, debug, e1) =
                          CSS_get_added_tick(css, debug, e2)
                   /\ CSS_get_changed_tick(css, debug, e1) =
                          CSS_get_changed_tick(css, debug, e2)
                   /\ CSS_get_ticks(css, debug, e1) =
                          CSS_get_ticks(css, debug, e2)
                   /\ CSS_get_changed_by(css, debug, e1) =
                          CSS_get_changed_by(css, debug, e2)
                   /\ \A w \in Writes :
                          CSS_insert(css, debug, e1, w.value, w.tick, w.caller) =
                          CSS_insert(css, debug, e2, w.value, w.tick, w.caller)
                   /\ CSS_remove(css, debug, e1) = CSS_remove(css, debug, e2)
                   /\ CSS_remove_and_forget(css, debug, e1) =
                          CSS_remove_and_forget(css, debug, e2)
        /\ (gens.on /\ StaleIn(clast.entity, gens.was)) =>
               LET o == OwnerIn(clast.entity, gens.was)
                   di == Unwrap(CPrePos)
                   held == clast.pre.dense[di + 1]
               IN  /\ clast.op = "insert" =>
                          /\ clast.found
                          /\ css = CSS_insert(clast.pre, debug, o,
                                       Unwrap(clast.write).value,
                                       Unwrap(clast.write).tick,
                                       Unwrap(clast.write).caller).c
                          /\ css.dense[di + 1].data = Unwrap(clast.write).value
                          /\ css.dense[di + 1].added = held.added
                   /\ clast.op = "remove" =>
                          /\ clast.found
                          /\ css = CSS_remove(clast.pre, debug, o).c
                          /\ clast.dropped = Some(held.data)
                          /\ ~SA_contains(css.sparse, o.row)
                   /\ clast.op = "remove_and_forget" =>
                          /\ clast.found
                          /\ css = CSS_remove_and_forget(clast.pre, debug, o).c
                          /\ clast.handle = Some(held.data)
                          /\ ~SA_contains(css.sparse, o.row)
        /\ (gens.on /\ obs.op # "none" /\ StaleIn(obs.arg, gens.ids)) =>
               LET o == OwnerIn(obs.arg, gens.ids)
                   row == css.dense[Unwrap(SA_get(css.sparse, o.row)) + 1]
               IN  /\ obs.returned
                   /\ obs.op = "contains" => obs.result = Some(TRUE)
                   /\ obs.op = "get" => obs.result = Some(row.data)
                   /\ obs.op = "get_with_ticks" => obs.result = Some(row)
                   /\ obs.op = "get_added_tick" => obs.result = Some(row.added)
                   /\ obs.op = "get_changed_tick" =>
                          obs.result = Some(row.changed)
                   /\ obs.op = "get_ticks" =>
                          obs.result = Some([added |-> row.added,
                                             changed |-> row.changed])
                   /\ obs.op = "get_changed_by" =>
                          obs.result = Some(row.changed_by)

\* a removal under a stale identifier took the newer owner's row and moved
\* another row into its place
C23_Witness ==
    /\ target = "ComponentSparseSet"
    /\ ~debug
    /\ gens.on
    /\ clast.op = "remove"
    /\ StaleIn(clast.entity, gens.was)
    /\ clast.found
    /\ IsSome(clast.fix)
    /\ fault = "none"

\* a read and a replacement under a stale identifier
C23_WitnessGet ==
    /\ ~debug
    /\ gens.on
    /\ obs.op = "get"
    /\ StaleIn(obs.arg, gens.ids)
    /\ IsSome(obs.result)

C23_WitnessInsert ==
    /\ ~debug
    /\ gens.on
    /\ clast.op = "insert"
    /\ StaleIn(clast.entity, gens.was)
    /\ Unwrap(clast.write).value # clast.pre.dense[Unwrap(CPrePos) + 1].data

\* ------------------------------------------------- failed assertion claim
\* the structural invariant of a ComponentSparseSet, of the store alone
Structured(c) ==
    /\ Len(c.entities) = Column_len(c.dense)
    /\ \A j \in Positions(c.entities) :
           SA_get(c.sparse, c.entities[j + 1].row) = Some(j)
    /\ \A r \in Positions(c.sparse) :
           LET d == SA_get(c.sparse, r)
           IN  IsSome(d) =>
                   /\ Unwrap(d) < Len(c.entities)
                   /\ c.entities[Unwrap(d) + 1].row = r

\* a debug build whose last call failed the identity assertion
AssertFailed == target = "ComponentSparseSet" /\ debug /\ fault = "panic"

\* the failed call was a read-only one, or one of the mutating ones
FailedRead == obs.op # "none" /\ ~obs.returned

FailedCall(ops) == obs.op = "none" /\ clast.op \in ops

\* C24 as stated: in a debug build, when the identity assertion fails in
\* insert, contains, a getter, remove or remove_and_forget, the store is as
\* it was before the call: back-pointers, entities and dense column are
\* unmodified and the structural invariant holds.
C24_FailureKeepsState ==
    AssertFailed =>
        /\ css = clast.pre
        /\ Structured(css)

\* C24, amended: when the assertion fails in insert, contains or a getter
\* the store is as it was before the call and the structural invariant
\* holds.  When it fails in remove or remove_and_forget the entities list
\* and the dense column are as before, but the back-pointer of the call's
\* row has been taken: the row is absent while its entry remains, and the
\* structural invariant does not hold.
C24_FailureState ==
    AssertFailed =>
        /\ FailedRead \/ FailedCall({"insert", "remove", "remove_and_forget"})
        /\ Structured(clast.pre)
        /\ css.dense = clast.pre.dense
        /\ css.entities = clast.pre.entities
        /\ FailedRead =>
               /\ \E o \in owners : SameRow(obs.arg, o)
               /\ css = clast.pre
               /\ Structured(css)
        /\ FailedCall({"insert"}) =>
               /\ StaleCall
               /\ css = clast.pre
               /\ Structured(css)
        /\ FailedCall({"remove", "remove_and_forget"}) =>
               LET row == clast.entity.row
               IN  /\ StaleCall
                   /\ SA_contains(clast.pre.sparse, row)
                   /\ ~SA_contains(css.sparse, row)
                   /\ css.sparse = VecSet(clast.pre.sparse, row, None)
                   /\ \E j \in Positions(css.entities) :
                          css.entities[j + 1].row = row
                   /\ CSS_len(css) = CSS_len(clast.pre)
                   /\ ~Structured(css)

\* a remove under a stale identifier failed on a full store
C24_Witness ==
    /\ AssertFailed
    /\ FailedCall({"remove"})
    /\ Len(clast.pre.dense) = NumRows
    /\ ~SA_contains(css.sparse, clast.entity.row)

\* a replacement and a read under a stale identifier failed
C24_WitnessInsert ==
    /\ AssertFailed
    /\ FailedCall({"insert"})
    /\ Len(css.dense) = NumRows

C24_WitnessRead ==
    /\ AssertFailed
    /\ FailedRead
    /\ obs.op = "get_ticks"
    /\ Len(css.dense) = NumRows

====
